---- MODULE Spec2Model ----
(***************************************************************************)
(* A model of stock-friend-cli's resilience layer.                         *)
(*                                                                         *)
(* Part 1: infrastructure/rate_limiter.py (TokenBucket, RateLimiter).      *)
(* Part 2: infrastructure/cache_manager.py (CacheManager over a            *)
(*         diskcache.Cache store).                                         *)
(*                                                                         *)
(* Time is the value time.time() returns, in whole seconds; it never runs  *)
(* backwards.  A token count is held in units of 1/3600 token, so that     *)
(* elapsed * refill_rate (refill_rate = requests_per_hour / 3600.0 tokens  *)
(* per second) is exact for every whole number of seconds: the value v     *)
(* stands for the float v / 3600.  Float rounding is not modelled.         *)
(***************************************************************************)
EXTENDS Integers, Sequences, FiniteSets, TLC

\* ------------------------------------------------------------------ bounds
\* How many times the clock advances in a behaviour.
MaxTicks == 2
\* The clock's step, in seconds: a sleeping thread wakes at the first step
\* at or after the end of its sleep.
TickSeconds == 1800
\* How many TokenBucket objects configure() constructs in a behaviour.
MaxBuckets == 2
\* How many calls of the limiter's (or the cache's) methods a behaviour
\* makes in all.
MaxCalls == 4
\* The cache clock's step, in seconds.
CacheStep == 43200

\* ------------------------------------------------------- program constants
\* rate_limiter.py:108  refill_rate = requests_per_hour / 3600.0
SecondsPerHour == 3600
\* rate_limiter.py:147  wait_time = min(1.0, ...)
MaxSleep == 1

\* cache_manager.py:89  ttl.total_seconds(): a timedelta's days count 86400
\* seconds each.
SecondsPerDay == 86400

\* One token, in the model's units of 1/3600 token (1.0 in the code).
OneToken == SecondsPerHour

\* The api names callers use, and the ones the concurrent callers share.
ApiNames == {"a", "b"}
ConcNames == {"a"}
\* The values of requests_per_hour that configure() is given.
Rates == {1, 2}
Threads == {"t1", "t2"}
SeqThreads == {"t1"}
Timeouts == {0, TickSeconds}
ClockSteps == {TickSeconds}

Min(x, y) == IF x <= y THEN x ELSE y
\* x / y rounded up to a whole number (a sleep ends at the first clock
\* reading at or after its requested end).
CeilDiv(x, y) == (x + y - 1) \div y

VARIABLES
    now,      \* time.time()
    ticks,    \* how often the clock has advanced
    calls,    \* how many calls have begun
    buckets,  \* RateLimiter.buckets: api name -> TokenBucket object (0: no key)
    heap,     \* the TokenBucket objects constructed so far, by object id
    hist,     \* history, per TokenBucket object: created, granted, last_consume
    th,       \* per thread: position in its call, the call's locals, its last result
    store,    \* the diskcache.Cache behind CacheManager: key -> entry
    written,  \* history, per key: the last set() that reached the store
    cres,     \* the cache call that has just returned: what it was, how it ended
    norm,     \* the call of normalize_for_compliance that has just returned
    svc,      \* ComplianceService: the call in progress, its locals, its result
    gw,       \* ZoyaComplianceGateway: the call in progress, its locals, its result
    gcache,   \* the gateway's CacheManager store: cache key -> entry
    zoya      \* the gateway's RateLimiter: its "zoya" TokenBucket

rlVars == <<now, ticks, calls, buckets, heap, hist, th>>
cacheVars == <<store, written, cres>>
appVars == <<norm, svc, gw, gcache, zoya>>
vars == <<now, ticks, calls, buckets, heap, hist, th, store, written, cres,
          norm, svc, gw, gcache, zoya>>

\* ------------------------------------------------------------ TokenBucket

\* TokenBucket.__init__: a full bucket stamped with the current time.
TokenBucket(capacity, refill_rate, t) ==
    [capacity |-> capacity, refill_rate |-> refill_rate,
     tokens |-> capacity * OneToken, last_refill_time |-> t]

\* A refill that forgets the cap at capacity.
RefillUncapped(b, t) ==
    LET elapsed == t - b.last_refill_time
        tokens_to_add == elapsed * b.refill_rate
    IN [b EXCEPT !.tokens = b.tokens + tokens_to_add,
                 !.last_refill_time = t]

\* A tick-based refill: only whole tokens are added, the rest of the elapsed
\* time is dropped.
RefillWholeTokens(b, t) ==
    LET elapsed == t - b.last_refill_time
        tokens_to_add == ((elapsed * b.refill_rate) \div OneToken) * OneToken
    IN [b EXCEPT !.tokens = Min(b.capacity * OneToken, b.tokens + tokens_to_add),
                 !.last_refill_time = t]

\* TokenBucket._refill at clock reading t.
Refill(b, t) ==
    LET elapsed == t - b.last_refill_time
        tokens_to_add == elapsed * b.refill_rate
    IN [b EXCEPT !.tokens = Min(b.capacity * OneToken, b.tokens + tokens_to_add),
                 !.last_refill_time = t]

\* A consume that reports success and leaves the token in the bucket.
ConsumeKeepsToken(b, t) ==
    LET r == Refill(b, t)
    IN IF r.tokens >= OneToken
       THEN [ok |-> TRUE, bucket |-> r]
       ELSE [ok |-> FALSE, bucket |-> r]

\* TokenBucket.consume at clock reading t: the whole body runs under
\* self.lock, so for callers that take the lock it is one step.
Consume(b, t) ==
    LET r == Refill(b, t)
    IN IF r.tokens >= OneToken
       THEN [ok |-> TRUE, bucket |-> [r EXCEPT !.tokens = @ - OneToken]]
       ELSE [ok |-> FALSE, bucket |-> r]

\* TokenBucket.time_until_next_token, in whole seconds rounded up.
TimeUntilNextToken(b) ==
    IF b.tokens >= OneToken THEN 0
    ELSE LET tokens_needed == OneToken - b.tokens
         IN CeilDiv(tokens_needed, b.refill_rate)

\* ------------------------------------------------------------ thread state

\* A thread's last finished call: the method, whether its api_name
\* had a bucket when the call began (known), how the call ended (out), the
\* number it returned (value), and two facts about an acquire: whether it
\* ended before its timeout had passed (early), and whether its last
\* consume() found a whole token after refilling (had_token).
NoCall == [op |-> "none", known |-> FALSE, out |-> "none",
           value |-> 0, early |-> FALSE, had_token |-> FALSE]

\* A thread's locals: pc is its position; api, bucket, start_time, timeout
\* are acquire's variables; wake is when its sleep ends; overdue records
\* that the deadline test let it pass at or after the deadline.  refill_now,
\* tokens_to_add and new_tokens are the locals and the operand stack of a
\* _refill that runs without the bucket's lock.
Locals(pc, api, bucket, has_timeout, timeout, last) ==
    [pc |-> pc, api |-> api, bucket |-> bucket, start_time |-> 0,
     has_timeout |-> has_timeout, timeout |-> timeout, wake |-> 0,
     overdue |-> FALSE, had_token |-> FALSE, last |-> last,
     refill_now |-> 0, tokens_to_add |-> 0, new_tokens |-> 0]

\* A thread between calls.
Idle == Locals("idle", "", 0, FALSE, 0, NoCall)

\* The call a thread is returning from: what it was, and how it ended.
Done(s, op, known, out, value, early) ==
    Locals("done", s.api, s.bucket, s.has_timeout, s.timeout,
           [op |-> op, known |-> known, out |-> out, value |-> value,
            early |-> early, had_token |-> s.had_token])

RLInit ==
    /\ now = 0
    /\ ticks = 0
    /\ calls = 0
    /\ buckets = [n \in ApiNames |-> 0]
    /\ heap = <<>>
    /\ hist = <<>>
    /\ th = [t \in Threads |-> Idle]

\* ------------------------------------------------------------------ clock

Tick ==
    /\ ticks < MaxTicks
    /\ \E d \in ClockSteps : now' = now + d
    /\ ticks' = ticks + 1
    /\ UNCHANGED <<calls, buckets, heap, hist, th,
                   store, written, cres, appVars>>

\* The caller has seen how its call ended and goes on.
Return(t) ==
    /\ th[t].pc = "done"
    /\ th' = [th EXCEPT ![t] = Idle]
    /\ UNCHANGED <<now, ticks, calls, buckets, heap, hist,
                   store, written, cres, appVars>>

\* ------------------------------------------------------------ RateLimiter

\* A configure that takes the rate per minute: requests_per_hour / 60.0.
ConfigureBucketPerMinute(requests_per_hour, t) ==
    TokenBucket(requests_per_hour, requests_per_hour * 60, t)

\* RateLimiter.configure, lines 106-109: the TokenBucket it constructs, with
\* refill_rate = requests_per_hour / 3600.0 tokens per second, which is
\* requests_per_hour units of 1/3600 token per second.
ConfigureBucket(requests_per_hour, t) ==
    TokenBucket(requests_per_hour, requests_per_hour, t)

Configure(t, api_name, requests_per_hour) ==
    /\ th[t].pc = "idle"
    /\ calls < MaxCalls
    /\ calls' = calls + 1
    /\ Len(heap) < MaxBuckets
    /\ heap' = Append(heap, ConfigureBucket(requests_per_hour, now))
    /\ hist' = Append(hist, [created |-> now, granted |-> 0, last_consume |-> now])
    /\ buckets' = [buckets EXCEPT ![api_name] = Len(heap) + 1]
    /\ th' = [th EXCEPT ![t] =
                Done([th[t] EXCEPT !.api = api_name, !.bucket = Len(heap) + 1],
                     "configure", buckets[api_name] # 0, "ok", 0, FALSE)]
    /\ UNCHANGED <<now, ticks,
                   store, written, cres, appVars>>

\* RateLimiter.acquire, lines 127-131: the membership test, the lookup of
\* the bucket object and the reading of start_time.  A key is never removed
\* from self.buckets, so the test and the lookup are taken in one step.
AcquireCall(t, api_name, has_timeout, timeout) ==
    /\ th[t].pc = "idle"
    /\ calls < MaxCalls
    /\ calls' = calls + 1
    /\ IF buckets[api_name] = 0
       THEN th' = [th EXCEPT ![t] =
                     Done([th[t] EXCEPT !.api = api_name], "acquire", FALSE,
                          "ValueError", 0, FALSE)]
       ELSE th' = [th EXCEPT ![t] =
                     [th[t] EXCEPT !.pc = "acq_consume",
                                   !.api = api_name,
                                   !.bucket = buckets[api_name],
                                   !.start_time = now,
                                   !.has_timeout = has_timeout,
                                   !.timeout = timeout]]
    /\ UNCHANGED <<now, ticks, buckets, heap, hist,
                   store, written, cres, appVars>>

\* The bucket after a consume, and the history of what it granted.
HeapAfter(b, c) == [heap EXCEPT ![b] = c.bucket]
HistAfter(b, c) ==
    IF c.ok
    THEN [hist EXCEPT ![b].granted = @ + 1, ![b].last_consume = now]
    ELSE hist

\* RateLimiter.acquire, lines 134-136: one pass through bucket.consume().
AcquireConsume(t) ==
    /\ th[t].pc = "acq_consume"
    /\ LET b == th[t].bucket
           c == Consume(heap[b], now)
           s == [th[t] EXCEPT !.had_token =
                                 Refill(heap[b], now).tokens >= OneToken]
       IN /\ heap' = HeapAfter(b, c)
          /\ hist' = HistAfter(b, c)
          /\ th' = [th EXCEPT ![t] =
                      IF c.ok
                      THEN Done(s, "acquire", TRUE, "ok", 0, FALSE)
                      ELSE [s EXCEPT !.pc = IF s.has_timeout THEN "acq_timeout"
                                            ELSE "acq_wait"]]
    /\ UNCHANGED <<now, ticks, calls, buckets,
                   store, written, cres, appVars>>

\* A deadline test that lets the deadline itself pass: elapsed > timeout.
TimedOutStrict(elapsed, timeout) == elapsed > timeout

\* RateLimiter.acquire, line 141: if elapsed >= timeout.
TimedOut(elapsed, timeout) == elapsed >= timeout

\* RateLimiter.acquire, lines 139-144: the deadline test.
AcquireTimeout(t) ==
    /\ th[t].pc = "acq_timeout"
    /\ LET elapsed == now - th[t].start_time
       IN th' = [th EXCEPT ![t] =
                   IF TimedOut(elapsed, th[t].timeout)
                   THEN Done(th[t], "acquire", TRUE,
                             "RateLimitException", 0, elapsed < th[t].timeout)
                   ELSE [th[t] EXCEPT !.pc = "acq_wait",
                                      !.overdue = (elapsed >= th[t].timeout)]]
    /\ UNCHANGED <<now, ticks, calls, buckets, heap, hist,
                   store, written, cres, appVars>>

\* RateLimiter.acquire, line 147.
WaitTime(b) == Min(MaxSleep, TimeUntilNextToken(b))

\* RateLimiter.acquire, lines 147-151: wait_time is computed from the bucket
\* (read without its lock) and the thread goes to sleep.
AcquireWait(t) ==
    /\ th[t].pc = "acq_wait"
    /\ th' = [th EXCEPT ![t] =
                [th[t] EXCEPT !.pc = "acq_sleep",
                              !.wake = now + WaitTime(heap[th[t].bucket])]]
    /\ UNCHANGED <<now, ticks, calls, buckets, heap, hist,
                   store, written, cres, appVars>>

\* time.sleep(wait_time) returns: not before wait_time has passed.
AcquireWake(t) ==
    /\ th[t].pc = "acq_sleep"
    /\ now >= th[t].wake
    /\ th' = [th EXCEPT ![t] = [th[t] EXCEPT !.pc = "acq_consume", !.wake = 0,
                                                !.overdue = FALSE]]
    /\ UNCHANGED <<now, ticks, calls, buckets, heap, hist,
                   store, written, cres, appVars>>

\* RateLimiter.try_acquire, lines 166-169: the membership test and lookup.
TryAcquireCall(t, api_name) ==
    /\ th[t].pc = "idle"
    /\ calls < MaxCalls
    /\ calls' = calls + 1
    /\ IF buckets[api_name] = 0
       THEN th' = [th EXCEPT ![t] =
                     Done([th[t] EXCEPT !.api = api_name], "try_acquire", FALSE,
                          "ValueError", 0, FALSE)]
       ELSE th' = [th EXCEPT ![t] =
                     [th[t] EXCEPT !.pc = "try_consume",
                                   !.api = api_name,
                                   !.bucket = buckets[api_name]]]
    /\ UNCHANGED <<now, ticks, buckets, heap, hist,
                   store, written, cres, appVars>>

\* RateLimiter.try_acquire, line 170: return bucket.consume().
TryAcquireConsume(t) ==
    /\ th[t].pc = "try_consume"
    /\ LET b == th[t].bucket
           c == Consume(heap[b], now)
           s == [th[t] EXCEPT !.had_token =
                                 Refill(heap[b], now).tokens >= OneToken]
       IN /\ heap' = HeapAfter(b, c)
          /\ hist' = HistAfter(b, c)
          /\ th' = [th EXCEPT ![t] =
                      Done(s, "try_acquire", TRUE,
                           IF c.ok THEN "True" ELSE "False", 0, FALSE)]
    /\ UNCHANGED <<now, ticks, calls, buckets,
                   store, written, cres, appVars>>

\* What get_available_tokens answers for a name that has no bucket.
UnconfiguredTokens(t, api_name) ==
    Done([th[t] EXCEPT !.api = api_name], "get_available_tokens", FALSE,
         "returned", 0, FALSE)

\* RateLimiter.get_available_tokens, lines 185-188.
GetAvailableTokensCall(t, api_name) ==
    /\ th[t].pc = "idle"
    /\ calls < MaxCalls
    /\ calls' = calls + 1
    /\ IF buckets[api_name] = 0
       THEN th' = [th EXCEPT ![t] = UnconfiguredTokens(t, api_name)]
       ELSE th' = [th EXCEPT ![t] =
                     [th[t] EXCEPT !.pc = "gat_refill",
                                   !.api = api_name,
                                   !.bucket = buckets[api_name]]]
    /\ UNCHANGED <<now, ticks, buckets, heap, hist,
                   store, written, cres, appVars>>

\* RateLimiter.get_available_tokens, lines 189-190, for a single caller:
\* bucket._refill() and int(bucket.tokens).
GetAvailableTokensRefill(t) ==
    /\ th[t].pc = "gat_refill"
    /\ LET b == th[t].bucket
           r == Refill(heap[b], now)
       IN /\ heap' = [heap EXCEPT ![b] = r]
          /\ th' = [th EXCEPT ![t] =
                      Done(th[t], "get_available_tokens", TRUE, "returned",
                           r.tokens \div OneToken, FALSE)]
    /\ UNCHANGED <<now, ticks, calls, buckets, hist,
                   store, written, cres, appVars>>


\* ------------------------------------- get_available_tokens beside consume
\* RateLimiter.get_available_tokens, line 189, calls bucket._refill() without
\* taking bucket.lock, so beside other threads the statements of _refill
\* (lines 55-62) are steps of their own: each reads or writes one attribute
\* of the bucket, and a consume() of another thread may run in between.

\* _refill, line 55: now = time.time().
RefillReadClock(t) ==
    /\ th[t].pc = "gat_refill"
    /\ th' = [th EXCEPT ![t] = [th[t] EXCEPT !.pc = "gat_elapsed",
                                              !.refill_now = now]]
    /\ UNCHANGED <<now, ticks, calls, buckets, heap, hist,
                   store, written, cres, appVars>>

\* _refill, lines 56-59: self.last_refill_time is read; elapsed and
\* tokens_to_add are computed.
RefillReadLast(t) ==
    /\ th[t].pc = "gat_elapsed"
    /\ LET b == heap[th[t].bucket]
           elapsed == th[t].refill_now - b.last_refill_time
       IN  th' = [th EXCEPT ![t] = [th[t] EXCEPT !.pc = "gat_tokens",
                                                 !.tokens_to_add = elapsed * b.refill_rate]]
    /\ UNCHANGED <<now, ticks, calls, buckets, heap, hist,
                   store, written, cres, appVars>>

\* _refill, line 60: self.tokens is read and the new value computed.
RefillReadTokens(t) ==
    /\ th[t].pc = "gat_tokens"
    /\ LET b == heap[th[t].bucket]
       IN  th' = [th EXCEPT ![t] =
                    [th[t] EXCEPT !.pc = "gat_write",
                                  !.new_tokens = Min(b.capacity * OneToken,
                                                     b.tokens + th[t].tokens_to_add)]]
    /\ UNCHANGED <<now, ticks, calls, buckets, heap, hist,
                   store, written, cres, appVars>>

\* _refill, line 60: the new value is stored in self.tokens.
RefillWriteTokens(t) ==
    /\ th[t].pc = "gat_write"
    /\ heap' = [heap EXCEPT ![th[t].bucket].tokens = th[t].new_tokens]
    /\ th' = [th EXCEPT ![t] = [th[t] EXCEPT !.pc = "gat_stamp"]]
    /\ UNCHANGED <<now, ticks, calls, buckets, hist,
                   store, written, cres, appVars>>

\* _refill, line 62: self.last_refill_time = now.
RefillWriteLast(t) ==
    /\ th[t].pc = "gat_stamp"
    /\ heap' = [heap EXCEPT ![th[t].bucket].last_refill_time = th[t].refill_now]
    /\ th' = [th EXCEPT ![t] = [th[t] EXCEPT !.pc = "gat_return"]]
    /\ UNCHANGED <<now, ticks, calls, buckets, hist,
                   store, written, cres, appVars>>

\* get_available_tokens, line 190: return int(bucket.tokens).
GetAvailableTokensReturn(t) ==
    /\ th[t].pc = "gat_return"
    /\ th' = [th EXCEPT ![t] =
                Done(th[t], "get_available_tokens", TRUE, "returned",
                     heap[th[t].bucket].tokens \div OneToken, FALSE)]
    /\ UNCHANGED <<now, ticks, calls, buckets, heap, hist,
                   store, written, cres, appVars>>

\* -------------------------------------------------- acquire, going on forever
\* For behaviours that never end (threads that keep calling acquire), times
\* are kept relative to the present: when the clock advances by d, every
\* stored time moves back by d and now stays as it is.  The code reads
\* times in differences only (elapsed = now - last_refill_time, the end of a
\* sleep), so nothing it computes changes.  A last_refill_time further back
\* than the time that fills an empty bucket refills the bucket to its
\* capacity like any earlier one, and is kept at that distance.  The call
\* counter and the history, which grow with every call, are left alone.

Max(x, y) == IF x >= y THEN x ELSE y

\* The time that fills an empty bucket: capacity / refill_rate seconds.
FillTime(b) == CeilDiv(b.capacity * OneToken, b.refill_rate)

\* The clock advances by d seconds.
FairTick ==
    /\ \E d \in ClockSteps :
          /\ heap' = [i \in DOMAIN heap |->
                        [heap[i] EXCEPT !.last_refill_time =
                            Max(@ - d, now - FillTime(heap[i]))]]
          /\ th' = [t \in Threads |-> [th[t] EXCEPT !.wake = Max(@ - d, now)]]
    /\ UNCHANGED <<now, ticks, calls, buckets, hist,
                   store, written, cres, appVars>>

\* RateLimiter.acquire(api_name) with timeout=None, lines 127-131.
FairAcquireCall(t, api_name) ==
    /\ th[t].pc = "idle"
    /\ buckets[api_name] # 0
    /\ th' = [th EXCEPT ![t] =
                [th[t] EXCEPT !.pc = "acq_consume", !.api = api_name,
                              !.bucket = buckets[api_name],
                              !.start_time = now]]
    /\ UNCHANGED <<now, ticks, calls, buckets, heap, hist,
                   store, written, cres, appVars>>

\* RateLimiter.acquire, lines 134-136: one pass through bucket.consume().
FairAcquireConsume(t) ==
    /\ th[t].pc = "acq_consume"
    /\ LET b == th[t].bucket
           c == Consume(heap[b], now)
       IN /\ heap' = HeapAfter(b, c)
          /\ th' = [th EXCEPT ![t] =
                      IF c.ok
                      THEN Done(th[t], "acquire", TRUE, "ok", 0, FALSE)
                      ELSE [th[t] EXCEPT !.pc = "acq_wait"]]
    /\ UNCHANGED <<now, ticks, calls, buckets, hist,
                   store, written, cres, appVars>>

\* ------------------------------------------------------------ CacheManager

Keys == {"k1", "k2"}
Values == {"v1", "v2"}
\* glob patterns given to invalidate(), and what fnmatch makes of them.
Patterns == {"*", "k1"}
Matches(k, pattern) == pattern = "*" \/ pattern = k
\* timedelta(days, seconds) values given to set().
TimeDelta(days, seconds) == [days |-> days, seconds |-> seconds]
TTLs == {TimeDelta(0, 0), TimeDelta(1, 0)}

Absent == "absent"
NoEntry == [present |-> FALSE, value |-> "", expire_time |-> 0]
NoSet == [called |-> FALSE, value |-> "", time |-> 0, ttl |-> TimeDelta(0, 0)]
NoResult == [op |-> "none", key |-> "", out |-> "none", value |-> "",
             at |-> 0, failed |-> FALSE]

\* timedelta.total_seconds().
TotalSeconds(ttl) == ttl.days * SecondsPerDay + ttl.seconds

\* diskcache.Cache.get(key) at clock reading t: the value of an entry whose
\* expire_time is later than t, else the default, None.
DiskGet(s, key, t) ==
    IF s[key].present /\ s[key].expire_time > t THEN s[key].value ELSE Absent

\* diskcache.Cache.set(key, value, expire=expire) at clock reading t: the
\* entry replaces any earlier one and expires at t + expire.
DiskSet(s, key, value, expire, t) ==
    [s EXCEPT ![key] = [present |-> TRUE, value |-> value, expire_time |-> t + expire]]

\* The stores diskcache may leave after culling store s: expired entries and
\* entries chosen by the eviction policy may be gone.
Culled(s) ==
    {[k \in Keys |-> IF k \in gone THEN NoEntry ELSE s[k]] : gone \in SUBSET Keys}

\* A set that uses the seconds field of the timedelta alone.
SetExpireSecondsField(ttl) == ttl.seconds

\* CacheManager.set, line 89: expire = ttl.total_seconds().
SetExpire(ttl) == TotalSeconds(ttl)

\* A get that lets the store's exception through.
GetOutcomeRaises(s, key, t, fail) ==
    IF fail THEN [out |-> "raised", value |-> Absent]
    ELSE [out |-> "returned", value |-> DiskGet(s, key, t)]

\* CacheManager.get, lines 68-77: the store's answer, or None when the store
\* raises.
GetOutcome(s, key, t, fail) ==
    IF fail THEN [out |-> "returned", value |-> Absent]
    ELSE [out |-> "returned", value |-> DiskGet(s, key, t)]

CacheInit ==
    /\ store = [k \in Keys |-> NoEntry]
    /\ written = [k \in Keys |-> NoSet]
    /\ cres = NoResult

CacheCall == calls < MaxCalls /\ calls' = calls + 1

CacheTick ==
    /\ ticks < MaxTicks
    /\ now' = now + CacheStep
    /\ ticks' = ticks + 1
    /\ UNCHANGED <<calls, store, written, cres,
                   buckets, heap, hist, th, appVars>>

\* CacheManager.get.
CacheGet(key, fail) ==
    /\ CacheCall
    /\ LET r == GetOutcome(store, key, now, fail)
       IN cres' = [op |-> "get", key |-> key, out |-> r.out, value |-> r.value,
                   at |-> now, failed |-> fail]
    /\ UNCHANGED <<now, ticks, store, written,
                   buckets, heap, hist, th, appVars>>

\* CacheManager.set, lines 88-93: the store's set raises and is logged, or
\* it stores the entry and culls.
CacheSet(key, value, ttl, fail) ==
    /\ CacheCall
    /\ IF fail
       THEN UNCHANGED <<store, written>>
       ELSE /\ store' \in Culled(DiskSet(store, key, value, SetExpire(ttl), now))
            /\ written' = [written EXCEPT ![key] =
                             [called |-> TRUE, value |-> value, time |-> now,
                              ttl |-> ttl]]
    /\ cres' = [op |-> "set", key |-> key, out |-> "returned", value |-> value,
                at |-> now, failed |-> fail]
    /\ UNCHANGED <<now, ticks,
                   buckets, heap, hist, th, appVars>>

\* CacheManager.invalidate, lines 106-116: the matching keys are deleted one
\* by one; an exception from the store ends the loop and is logged.
CacheInvalidate(pattern, fail) ==
    /\ CacheCall
    /\ \E gone \in SUBSET {k \in Keys : store[k].present /\ Matches(k, pattern)} :
          /\ ~fail => gone = {k \in Keys : store[k].present /\ Matches(k, pattern)}
          /\ store' = [k \in Keys |-> IF k \in gone THEN NoEntry ELSE store[k]]
    /\ cres' = [op |-> "invalidate", key |-> pattern, out |-> "returned",
                value |-> "", at |-> now, failed |-> fail]
    /\ UNCHANGED <<now, ticks, written,
                   buckets, heap, hist, th, appVars>>

\* CacheManager.clear, lines 120-124.
CacheClear(fail) ==
    /\ CacheCall
    /\ store' = IF fail THEN store ELSE [k \in Keys |-> NoEntry]
    /\ cres' = [op |-> "clear", key |-> "", out |-> "returned", value |-> "",
                at |-> now, failed |-> fail]
    /\ UNCHANGED <<now, ticks, written,
                   buckets, heap, hist, th, appVars>>

\* CacheManager.get_stats, lines 128-137: the counts, or zeros when the store
\* raises.
CacheGetStats(fail) ==
    /\ CacheCall
    /\ cres' = [op |-> "get_stats", key |-> "", out |-> "returned", value |-> "",
                at |-> now, failed |-> fail]
    /\ UNCHANGED <<now, ticks, store, written,
                   buckets, heap, hist, th, appVars>>

\* ------------------------------------------------------------- strings
\* A Python str is the sequence of its characters.
LowerCase == <<"a", "b", "c", "d", "e", "f", "g", "h", "i", "j", "k", "l", "m", "n", "o", "p", "q", "r", "s", "t", "u", "v", "w", "x", "y", "z", "ö", "ü">>
UpperCase == <<"A", "B", "C", "D", "E", "F", "G", "H", "I", "J", "K", "L", "M", "N", "O", "P", "Q", "R", "S", "T", "U", "V", "W", "X", "Y", "Z", "Ö", "Ü">>
Whitespace == {" ", "\t"}
\* None, where the code has an Optional[str].
None == <<"None">>

\* str.upper(), one character.
UpperChar(c) ==
    IF \E i \in 1..Len(LowerCase) : LowerCase[i] = c
       THEN UpperCase[CHOOSE i \in 1..Len(LowerCase) : LowerCase[i] = c]
       ELSE c

\* str.upper()
Upper(s) == [i \in 1..Len(s) |-> UpperChar(s[i])]

\* str.strip(): leading and trailing whitespace removed.
Strip(s) ==
    LET inside == {i \in 1..Len(s) : s[i] \notin Whitespace}
    IN  IF inside = {} THEN <<>>
        ELSE SubSeq(s, CHOOSE i \in inside : \A j \in inside : i <= j,
                       CHOOSE i \in inside : \A j \in inside : j <= i)

\* str.endswith(suffix)
EndsWith(s, suffix) ==
    /\ Len(suffix) <= Len(s)
    /\ SubSeq(s, Len(s) - Len(suffix) + 1, Len(s)) = suffix

\* sub in s, for two strings.
Contains(s, sub) ==
    \E i \in 0..(Len(s) - Len(sub)) : SubSeq(s, i + 1, i + Len(sub)) = sub

\* --------------------------------------------- SymbolNormalizationService
\* symbol_normalization_service.py:53-94  EXCHANGE_MAPPINGS, in the order of
\* the list.
ExchangeMapping(yfinance_suffix, bloomberg_code, exchange_name, market_region, country_code) ==
    [yfinance_suffix |-> yfinance_suffix, bloomberg_code |-> bloomberg_code,
     exchange_name |-> exchange_name, market_region |-> market_region,
     country_code |-> country_code]

EXCHANGE_MAPPINGS == <<
    ExchangeMapping(<<".", "D", "E">>, <<"X", "E", "T", "R">>,
        <<"D", "e", "u", "t", "s", "c", "h", "e", " ", "B", "ö", "r", "s", "e", " ", "X", "e", "t", "r", "a">>,
        "EU", "DE"),
    ExchangeMapping(<<".", "F">>, <<"X", "F", "R", "A">>,
        <<"F", "r", "a", "n", "k", "f", "u", "r", "t", " ", "S", "t", "o", "c", "k", " ", "E", "x", "c", "h", "a", "n", "g", "e">>,
        "EU", "DE"),
    ExchangeMapping(<<".", "B", "E">>, <<"X", "B", "E", "R">>,
        <<"B", "e", "r", "l", "i", "n", " ", "S", "t", "o", "c", "k", " ", "E", "x", "c", "h", "a", "n", "g", "e">>,
        "EU", "DE"),
    ExchangeMapping(<<".", "M", "U">>, <<"X", "M", "U", "N">>,
        <<"M", "u", "n", "i", "c", "h", " ", "S", "t", "o", "c", "k", " ", "E", "x", "c", "h", "a", "n", "g", "e">>,
        "EU", "DE"),
    ExchangeMapping(<<".", "D", "U">>, <<"X", "D", "U", "S">>,
        <<"D", "ü", "s", "s", "e", "l", "d", "o", "r", "f", " ", "S", "t", "o", "c", "k", " ", "E", "x", "c", "h", "a", "n", "g", "e">>,
        "EU", "DE"),
    ExchangeMapping(<<".", "H", "M">>, <<"X", "H", "A", "M">>,
        <<"H", "a", "m", "b", "u", "r", "g", " ", "S", "t", "o", "c", "k", " ", "E", "x", "c", "h", "a", "n", "g", "e">>,
        "EU", "DE"),
    ExchangeMapping(<<".", "H", "A">>, <<"X", "H", "A", "N">>,
        <<"H", "a", "n", "o", "v", "e", "r", " ", "S", "t", "o", "c", "k", " ", "E", "x", "c", "h", "a", "n", "g", "e">>,
        "EU", "DE"),
    ExchangeMapping(<<".", "S", "G">>, <<"X", "S", "T", "U">>,
        <<"S", "t", "u", "t", "t", "g", "a", "r", "t", " ", "S", "t", "o", "c", "k", " ", "E", "x", "c", "h", "a", "n", "g", "e">>,
        "EU", "DE"),
    ExchangeMapping(<<".", "L">>, <<"X", "L", "O", "N">>,
        <<"L", "o", "n", "d", "o", "n", " ", "S", "t", "o", "c", "k", " ", "E", "x", "c", "h", "a", "n", "g", "e">>,
        "UK", "GB"),
    ExchangeMapping(<<".", "P", "A">>, <<"X", "P", "A", "R">>,
        <<"E", "u", "r", "o", "n", "e", "x", "t", " ", "P", "a", "r", "i", "s">>,
        "EU", "FR"),
    ExchangeMapping(<<".", "A", "S">>, <<"X", "A", "M", "S">>,
        <<"E", "u", "r", "o", "n", "e", "x", "t", " ", "A", "m", "s", "t", "e", "r", "d", "a", "m">>,
        "EU", "NL"),
    ExchangeMapping(<<".", "B", "R">>, <<"X", "B", "R", "U">>,
        <<"E", "u", "r", "o", "n", "e", "x", "t", " ", "B", "r", "u", "s", "s", "e", "l", "s">>,
        "EU", "BE"),
    ExchangeMapping(<<".", "L", "S">>, <<"X", "L", "I", "S">>,
        <<"E", "u", "r", "o", "n", "e", "x", "t", " ", "L", "i", "s", "b", "o", "n">>,
        "EU", "PT"),
    ExchangeMapping(<<".", "M", "I">>, <<"X", "M", "I", "L">>,
        <<"B", "o", "r", "s", "a", " ", "I", "t", "a", "l", "i", "a", "n", "a", " ", "(", "M", "i", "l", "a", "n", ")">>,
        "EU", "IT"),
    ExchangeMapping(<<".", "S", "W">>, <<"X", "S", "W", "X">>,
        <<"S", "I", "X", " ", "S", "w", "i", "s", "s", " ", "E", "x", "c", "h", "a", "n", "g", "e">>,
        "EU", "CH"),
    ExchangeMapping(<<".", "S", "T">>, <<"X", "S", "T", "O">>,
        <<"N", "a", "s", "d", "a", "q", " ", "S", "t", "o", "c", "k", "h", "o", "l", "m">>,
        "EU", "SE"),
    ExchangeMapping(<<".", "C", "O">>, <<"X", "C", "S", "E">>,
        <<"N", "a", "s", "d", "a", "q", " ", "C", "o", "p", "e", "n", "h", "a", "g", "e", "n">>,
        "EU", "DK"),
    ExchangeMapping(<<".", "H", "E">>, <<"X", "H", "E", "L">>,
        <<"N", "a", "s", "d", "a", "q", " ", "H", "e", "l", "s", "i", "n", "k", "i">>,
        "EU", "FI"),
    ExchangeMapping(<<".", "O", "L">>, <<"X", "O", "S", "L">>,
        <<"O", "s", "l", "o", " ", "S", "t", "o", "c", "k", " ", "E", "x", "c", "h", "a", "n", "g", "e">>,
        "EU", "NO"),
    ExchangeMapping(<<".", "M", "C">>, <<"X", "M", "A", "D">>,
        <<"B", "o", "l", "s", "a", " ", "d", "e", " ", "M", "a", "d", "r", "i", "d">>,
        "EU", "ES"),
    ExchangeMapping(<<".", "V", "I">>, <<"X", "W", "B", "O">>,
        <<"V", "i", "e", "n", "n", "a", " ", "S", "t", "o", "c", "k", " ", "E", "x", "c", "h", "a", "n", "g", "e">>,
        "EU", "AT"),
    ExchangeMapping(<<".", "H", "K">>, <<"X", "H", "K", "G">>,
        <<"H", "o", "n", "g", " ", "K", "o", "n", "g", " ", "S", "t", "o", "c", "k", " ", "E", "x", "c", "h", "a", "n", "g", "e">>,
        "ASIA", "HK"),
    ExchangeMapping(<<".", "T">>, <<"X", "T", "K", "S">>,
        <<"T", "o", "k", "y", "o", " ", "S", "t", "o", "c", "k", " ", "E", "x", "c", "h", "a", "n", "g", "e">>,
        "ASIA", "JP"),
    ExchangeMapping(<<".", "K", "S">>, <<"X", "K", "R", "X">>,
        <<"K", "o", "r", "e", "a", " ", "S", "t", "o", "c", "k", " ", "E", "x", "c", "h", "a", "n", "g", "e">>,
        "ASIA", "KR"),
    ExchangeMapping(<<".", "S", "S">>, <<"X", "S", "H", "G">>,
        <<"S", "h", "a", "n", "g", "h", "a", "i", " ", "S", "t", "o", "c", "k", " ", "E", "x", "c", "h", "a", "n", "g", "e">>,
        "ASIA", "CN"),
    ExchangeMapping(<<".", "S", "Z">>, <<"X", "S", "H", "E">>,
        <<"S", "h", "e", "n", "z", "h", "e", "n", " ", "S", "t", "o", "c", "k", " ", "E", "x", "c", "h", "a", "n", "g", "e">>,
        "ASIA", "CN"),
    ExchangeMapping(<<".", "A", "X">>, <<"X", "A", "S", "X">>,
        <<"A", "u", "s", "t", "r", "a", "l", "i", "a", "n", " ", "S", "e", "c", "u", "r", "i", "t", "i", "e", "s", " ", "E", "x", "c", "h", "a", "n", "g", "e">>,
        "OTHER", "AU"),
    ExchangeMapping(<<".", "T", "O">>, <<"X", "T", "S", "E">>,
        <<"T", "o", "r", "o", "n", "t", "o", " ", "S", "t", "o", "c", "k", " ", "E", "x", "c", "h", "a", "n", "g", "e">>,
        "OTHER", "CA"),
    ExchangeMapping(<<".", "V">>, <<"X", "T", "S", "X">>,
        <<"T", "S", "X", " ", "V", "e", "n", "t", "u", "r", "e", " ", "E", "x", "c", "h", "a", "n", "g", "e">>,
        "OTHER", "CA") >>

\* symbol_normalization_service.py:97-103  US_EXCHANGE_CODES
US_EXCHANGE_CODES == <<
    [code |-> <<"N", "A", "S", "D", "A", "Q">>, bloomberg_code |-> <<"X", "N", "G", "S">>],
    [code |-> <<"N", "Y", "S", "E">>, bloomberg_code |-> <<"X", "N", "Y", "S">>],
    [code |-> <<"A", "M", "E", "X">>, bloomberg_code |-> <<"X", "A", "S", "E">>],
    [code |-> <<"N", "Y", "Q">>, bloomberg_code |-> <<"X", "N", "Y", "S">>],
    [code |-> <<"N", "M", "S">>, bloomberg_code |-> <<"X", "N", "G", "S">>] >>

\* symbol_normalization_service.py:106-113  PRESERVE_SUFFIXES
PRESERVE_SUFFIXES == {
    <<".", "A">>,
    <<".", "B">>,
    <<".", "C">>,
    <<".", "D">>,
    <<"-", "A">>,
    <<"-", "B">>,
    <<"-", "C">>,
    <<"-", "D">>,
    <<".", "P", "R">>,
    <<".", "U">>,
    <<".", "U", "N">>,
    <<".", "W">>,
    <<".", "W", "S">>,
    <<".", "R">>,
    <<".", "R", "T">> }

\* str[: -len(suffix)]
DropSuffixKeepsDot(s, suffix) == SubSeq(s, 1, Len(s) - Len(suffix) + 1)
DropSuffix(s, suffix) == SubSeq(s, 1, Len(s) - Len(suffix))

\* SymbolNormalizationService.__init__, lines 118-120: _suffix_map, a dict
\* keyed by suffix; its keys in insertion order.
SuffixMapKeys == [i \in 1..Len(EXCHANGE_MAPPINGS) |-> EXCHANGE_MAPPINGS[i].yfinance_suffix]

\* _suffix_map[suffix]
SuffixMap(suffix) ==
    EXCHANGE_MAPPINGS[CHOOSE i \in 1..Len(EXCHANGE_MAPPINGS) :
                          /\ EXCHANGE_MAPPINGS[i].yfinance_suffix = suffix
                          /\ \A j \in (i + 1)..Len(EXCHANGE_MAPPINGS) :
                                EXCHANGE_MAPPINGS[j].yfinance_suffix # suffix]

\* sorted(keys, key=len, reverse=True): longest first, equal lengths in the
\* order of the keys (the sort is stable).
RECURSIVE SortedByLenReverse(_, _)
SortedByLenReverse(keys, len) ==
    IF len < 0 THEN <<>>
    ELSE SelectSeq(keys, LAMBDA k : Len(k) = len) \o SortedByLenReverse(keys, len - 1)

SortedSuffixes ==
    LET lens == {Len(SuffixMapKeys[i]) : i \in 1..Len(SuffixMapKeys)}
    IN  SortedByLenReverse(SuffixMapKeys, CHOOSE n \in lens : \A m \in lens : m <= n)

\* _extract_exchange_suffix, lines 292-307: the first suffix of the sorted
\* keys the uppercased ticker ends with, or None.
ExtractExchangeSuffix(ticker) ==
    LET t == Upper(ticker)
        hits == {i \in 1..Len(SortedSuffixes) : EndsWith(t, SortedSuffixes[i])}
    IN  IF hits = {} THEN None
        ELSE SortedSuffixes[CHOOSE i \in hits : \A j \in hits : i <= j]

\* A service that knows no suffix to preserve.
GetPreservedSuffixNever(ticker) == None

\* _get_preserved_suffix, lines 309-322: a suffix of PRESERVE_SUFFIXES the
\* uppercased ticker ends with, or None.  No string ends with two of them,
\* so the order in which the set is walked does not matter.
GetPreservedSuffix(ticker) ==
    LET t == Upper(ticker)
        hits == {p \in PRESERVE_SUFFIXES : EndsWith(t, p)}
    IN  IF hits = {} THEN None ELSE CHOOSE p \in hits : TRUE

\* An inference that tries the exchange names before the US codes.
InferExchangeFromCodeNamesFirst(exchange_code) ==
    LET code == Upper(exchange_code)
        direct == {i \in 1..Len(EXCHANGE_MAPPINGS) :
                      EXCHANGE_MAPPINGS[i].bloomberg_code = code}
        us == {i \in 1..Len(US_EXCHANGE_CODES) : US_EXCHANGE_CODES[i].code = code}
        partial == {i \in 1..Len(EXCHANGE_MAPPINGS) :
                       Contains(Upper(EXCHANGE_MAPPINGS[i].exchange_name), code)}
    IN  IF direct # {} THEN code
        ELSE IF partial # {}
             THEN EXCHANGE_MAPPINGS[CHOOSE i \in partial :
                                       \A j \in partial : i <= j].bloomberg_code
        ELSE IF us # {} THEN US_EXCHANGE_CODES[CHOOSE i \in us : TRUE].bloomberg_code
        ELSE None

\* _infer_exchange_from_code, lines 324-349.
InferExchangeFromCode(exchange_code) ==
    LET code == Upper(exchange_code)
        direct == {i \in 1..Len(EXCHANGE_MAPPINGS) :
                      EXCHANGE_MAPPINGS[i].bloomberg_code = code}
        us == {i \in 1..Len(US_EXCHANGE_CODES) : US_EXCHANGE_CODES[i].code = code}
        partial == {i \in 1..Len(EXCHANGE_MAPPINGS) :
                       Contains(Upper(EXCHANGE_MAPPINGS[i].exchange_name), code)}
    IN  IF direct # {} THEN code
        ELSE IF us # {} THEN US_EXCHANGE_CODES[CHOOSE i \in us : TRUE].bloomberg_code
        ELSE IF partial # {}
             THEN EXCHANGE_MAPPINGS[CHOOSE i \in partial :
                                       \A j \in partial : i <= j].bloomberg_code
        ELSE None

\* Python truth of an Optional[str]: None and "" are false.
Truthy(s) == s # None /\ s # <<>>

\* normalize_for_compliance, lines 166 and 213:
\* MarketRegion.US if not exchange else MarketRegion.OTHER
MarketRegionOther(exchange) == "OTHER"
MarketRegionOf(exchange) == IF ~Truthy(exchange) THEN "US" ELSE "OTHER"

NormalizedSymbol(base_symbol, original_ticker, exchange_code, market_region, confidence, transformation_notes, source_gateway) ==
    [base_symbol |-> base_symbol, original_ticker |-> original_ticker,
     exchange_code |-> exchange_code, market_region |-> market_region,
     confidence |-> confidence, transformation_notes |-> transformation_notes,
     source_gateway |-> source_gateway]

\* normalize_for_compliance, lines 155-217.  A note is kept as its kind.
NormalizeForCompliance(raw, exchange, source_gateway) ==
    LET ticker == Upper(Strip(raw))
        preserved_suffix == GetPreservedSuffix(ticker)
        exchange_suffix == ExtractExchangeSuffix(ticker)
        region == MarketRegionOf(exchange)
    IN  IF Truthy(preserved_suffix)
        THEN NormalizedSymbol(ticker, ticker,
                 IF Truthy(exchange) THEN InferExchangeFromCode(exchange) ELSE None,
                 region, "HIGH", <<"Preserved special suffix">>, source_gateway)
        ELSE IF Truthy(exchange_suffix)
        THEN LET mapping == SuffixMap(exchange_suffix)
             IN  NormalizedSymbol(DropSuffix(ticker, exchange_suffix), ticker,
                     mapping.bloomberg_code, mapping.market_region, "HIGH",
                     <<"Removed suffix">>, source_gateway)
        ELSE IF Truthy(exchange)
        THEN LET bloomberg_code == InferExchangeFromCode(exchange)
             IN  IF Truthy(bloomberg_code)
                 THEN NormalizedSymbol(ticker, ticker, bloomberg_code, region,
                          "HIGH", <<"Mapped exchange code">>, source_gateway)
                 ELSE NormalizedSymbol(ticker, ticker, exchange, region,
                          "MEDIUM", <<"Unknown exchange code">>, source_gateway)
        ELSE NormalizedSymbol(ticker, ticker, None, region, "HIGH",
                 <<"No suffix or exchange - assuming US market">>, source_gateway)

\* The tickers and exchange hints normalize is given: a base, a suffix, and
\* blanks around them.
NormBases == {<<>>, <<"B", "M", "W">>, <<"b", "m", "w">>, <<"A", "A", "P", "L">>, <<"B", "R", "K">>, <<"V", "O", "W", "3">>}
NormSuffixes == {
    <<>>,
    <<".", "D", "E">>,
    <<".", "F">>,
    <<".", "L">>,
    <<".", "A">>,
    <<".", "W", "S">>,
    <<".", "T", "O">>,
    <<".", "V">>,
    <<"-", "B">>,
    <<".", "X", "X">>,
    <<".", "d", "e">> }
Pads == {<<>>, <<" ">>}
\* Tickers with two suffixes, and with a blank before the suffix.
TwoSuffixTickers == {
    <<"B", "M", "W", ".", "D", "E", ".", "F">>,
    <<"B", "R", "K", ".", "A", ".", "D", "E">>,
    <<"B", "M", "W", ".", "D", "E", ".", "A">>,
    <<"B", "M", "W", " ", ".", "L">> }
NormTickers ==
    {l \o b \o s \o r : l \in Pads, b \in NormBases, s \in NormSuffixes, r \in Pads}
        \cup TwoSuffixTickers
Hints == {None,
    <<"X", "E", "T", "R">>,
    <<"n", "y", "s", "e">>,
    <<"N", "M", "S">>,
    <<"N", "A", "S", "D", "A", "Q">>,
    <<"F", "R", "A", "N", "K", "F", "U", "R", "T">>,
    <<"L", "S", "E">>,
    <<"Z", "Z", "Z">>,
    <<"X">>,
    <<>> }

NoNormalization ==
    [called |-> FALSE, ticker |-> <<>>, exchange |-> None, out |-> "none",
     result |-> NormalizedSymbol(<<>>, <<>>, None, "US", "HIGH", <<>>, "")]

NormInit == norm = NoNormalization

\* Whether normalize_for_compliance raises for a ticker: lines 155-217 hold
\* no raise statement and no check of the stripped ticker, every branch
\* returns.
NormalizeRaisesOnEmpty(ticker) == Strip(ticker) = <<>>
NormalizeRaises(ticker) == FALSE

\* One call of normalize_for_compliance(ticker, exchange).
Normalize(ticker, exchange) ==
    /\ ~norm.called
    /\ norm' = [called |-> TRUE, ticker |-> ticker, exchange |-> exchange,
                out |-> IF NormalizeRaises(ticker) THEN "ValueError" ELSE "returned",
                result |-> NormalizeForCompliance(ticker, exchange, "yfinance")]
    /\ UNCHANGED <<now, ticks, calls, buckets, heap, hist, th,
                   store, written, cres, svc, gw, gcache, zoya>>

\* The caller takes the result.
NormalizeReturn ==
    /\ norm.called
    /\ norm' = NoNormalization
    /\ UNCHANGED <<now, ticks, calls, buckets, heap, hist, th,
                   store, written, cres, svc, gw, gcache, zoya>>

\* ------------------------------------------------------------------ dict
\* A Python dict is the sequence of its items in insertion order; setting an
\* existing key keeps the key's place.
DictHas(d, k) == \E i \in 1..Len(d) : d[i].key = k
DictGet(d, k) == d[CHOOSE i \in 1..Len(d) : d[i].key = k].value
DictSet(d, k, v) ==
    IF DictHas(d, k)
       THEN [i \in 1..Len(d) |-> IF d[i].key = k THEN [key |-> k, value |-> v] ELSE d[i]]
       ELSE Append(d, [key |-> k, value |-> v])
DictValues(d) == [i \in 1..Len(d) |-> d[i].value]
DictKeys(d) == [i \in 1..Len(d) |-> d[i].key]
SeqToSet(s) == {s[i] : i \in 1..Len(s)}

\* ------------------------------------------------------- ComplianceStatus
\* status.normalized_from before the service has set it.
NoAudit == NormalizedSymbol(None, None, None, "", "", <<>>, "")

\* models/compliance.py:52-68: the fields the services read; __post_init__
\* uppercases and strips a non-empty ticker.  is_compliant is "True",
\* "False" or "None"; a reason is kept as its kind.
ComplianceStatus(ticker, is_compliant, reasons, source) ==
    [ticker |-> IF ticker # <<>> THEN Strip(Upper(ticker)) ELSE ticker,
     is_compliant |-> is_compliant, reasons |-> reasons, source |-> source,
     normalized_from |-> NoAudit]

\* ------------------------------------------------------ ComplianceService
\* How many stocks a call of the service is given at most.
MaxStocks == 3

\* The stocks the service is given: a ticker and an exchange.
Stock(ticker, exchange) == [ticker |-> ticker, exchange |-> exchange]
Stocks == {
    Stock(<<"B", "M", "W", ".", "D", "E">>, None),
    Stock(<<"B", "M", "W", ".", "F">>, None),
    Stock(<<"a", "a", "p", "l">>, <<"N", "M", "S">>),
    Stock(<<"S", "A", "P", ".", "L">>, None) }
StockLists == UNION {[1..n -> Stocks] : n \in 0..MaxStocks}

\* What the gateway answers for one symbol: a status with that compliance
\* value, or no entry for the symbol in the dict it returns.
Answers == {"True", "False", "None", "absent"}

NoSummary == [total |-> 0, compliant |-> 0, non_compliant |-> 0, unknown |-> 0]

\* The service between calls.
ServiceIdle ==
    [pc |-> "idle", op |-> "none", stocks |-> <<>>, conservative |-> FALSE,
     normalized |-> NoAudit, normalized_map |-> <<>>, provider_calls |-> <<>>,
     answer |-> <<>>, objects |-> <<>>, results |-> <<>>, out |-> "none",
     kept |-> <<>>, summary |-> NoSummary]

ServiceInit == svc = ServiceIdle

\* compliance_service.py:150-156  the loop that fills normalized_map
RECURSIVE NormalizeAll(_, _)
NormalizeAll(stocks, normalized_map) ==
    IF stocks = <<>> THEN normalized_map
    ELSE NormalizeAll(Tail(stocks),
             DictSet(normalized_map, Head(stocks).ticker,
                 NormalizeForCompliance(Head(stocks).ticker, Head(stocks).exchange,
                                        "yfinance")))

\* compliance_service.py:164  the list handed to gateway.check_batch
BaseSymbols(normalized_map) ==
    [i \in 1..Len(normalized_map) |-> normalized_map[i].value.base_symbol]

\* The key under which a gateway files the status of a symbol it was given
\* (zoya_gateway.py:297, static_gateway.py:131).
GatewayKey(symbol) == Strip(Upper(symbol))

\* IComplianceGateway.check_batch(tickers): a dict from symbols to status
\* objects, one object per key, keys in the order of the list; a gateway may
\* leave a symbol out.  objects is the heap of status objects, the dict
\* holds their ids.
RECURSIVE GatewayCheckBatch(_, _, _)
GatewayCheckBatch(tickers, answer, acc) ==
    IF tickers = <<>> THEN acc
    ELSE LET key == GatewayKey(Head(tickers))
         IN  IF answer[key] = "absent" \/ DictHas(acc.dict, key)
             THEN GatewayCheckBatch(Tail(tickers), answer, acc)
             ELSE GatewayCheckBatch(Tail(tickers), answer,
                      [objects |-> Append(acc.objects,
                                      ComplianceStatus(key, answer[key],
                                          IF answer[key] = "None"
                                             THEN <<"No compliance data">> ELSE <<>>,
                                          "gateway")),
                       dict |-> DictSet(acc.dict, key, Len(acc.objects) + 1)])

\* compliance_service.py:173  the symbol a stock's status is looked up under
LookupSymbolTicker(stock, normalized) == stock.ticker
LookupSymbol(stock, normalized) == normalized.base_symbol

\* compliance_service.py:170-187  map the results back to the tickers
RECURSIVE MapResults(_, _, _, _)
MapResults(stocks, normalized_map, base_statuses, acc) ==
    IF stocks = <<>> THEN acc
    ELSE LET stock == Head(stocks)
             normalized == DictGet(normalized_map, stock.ticker)
             symbol == LookupSymbol(stock, normalized)
         IN  IF DictHas(base_statuses, symbol)
             THEN LET id == DictGet(base_statuses, symbol)
                  IN  MapResults(Tail(stocks), normalized_map, base_statuses,
                          [objects |-> [acc.objects EXCEPT
                                           ![id].normalized_from = normalized],
                           dict |-> DictSet(acc.dict, stock.ticker, id)])
             ELSE MapResults(Tail(stocks), normalized_map, base_statuses,
                      [objects |-> Append(acc.objects,
                                      ComplianceStatus(stock.ticker, "None",
                                          <<"Internal error: no compliance result">>,
                                          "error")),
                       dict |-> DictSet(acc.dict, stock.ticker, Len(acc.objects) + 1)])

\* The compliance value of the status filed under a ticker.
ValueOf(objects, results, ticker) == objects[DictGet(results, ticker)].is_compliant

\* compliance_service.py:226-232  whether the filter keeps a stock
KeepsStockNotFalse(conservative, is_compliant) == is_compliant # "False"
KeepsStock(conservative, is_compliant) ==
    IF conservative THEN is_compliant = "True" ELSE is_compliant # "False"

\* compliance_service.py:219-232  the stocks the filter keeps, in input order
FilterStocks(stocks, objects, results, conservative) ==
    SelectSeq(stocks, LAMBDA stock :
        /\ DictHas(results, stock.ticker)
        /\ KeepsStock(conservative, ValueOf(objects, results, stock.ticker)))

\* sum(1 for s in statuses.values() if s.is_compliant is v)
CountStatuses(objects, results, v) ==
    Cardinality({i \in 1..Len(results) : objects[results[i].value].is_compliant = v})

\* compliance_service.py:283-290
Summary(objects, results) ==
    [total |-> Len(results),
     compliant |-> CountStatuses(objects, results, "True"),
     non_compliant |-> CountStatuses(objects, results, "False"),
     unknown |-> CountStatuses(objects, results, "None")]

\* check_batch_compliance, filter_compliant_stocks or get_compliance_summary
\* is called: an empty list returns at once (lines 144-145, 212-213,
\* 273-279); otherwise every stock is normalized (lines 150-164) and the
\* call has reached gateway.check_batch.
ServiceCall(op, stocks, conservative) ==
    /\ svc.pc = "idle"
    /\ svc' = IF stocks = <<>>
                 THEN [ServiceIdle EXCEPT !.pc = "done", !.op = op,
                                          !.conservative = conservative,
                                          !.out = "returned"]
                 ELSE [ServiceIdle EXCEPT !.pc = "check_batch", !.op = op,
                                          !.stocks = stocks,
                                          !.conservative = conservative,
                                          !.normalized_map = NormalizeAll(stocks, <<>>)]
    /\ UNCHANGED <<now, ticks, calls, buckets, heap, hist, th,
                   store, written, cres, norm, gw, gcache, zoya>>

\* gateway.check_batch(base_symbols) answers (line 167), the results are
\* mapped back (lines 170-187), and the method that called
\* check_batch_compliance finishes (lines 219-251, 283-290).
ServiceCheckBatch ==
    /\ svc.pc = "check_batch"
    /\ LET base_symbols == BaseSymbols(svc.normalized_map)
           keys == {GatewayKey(s) : s \in SeqToSet(base_symbols)}
       IN  \E answer \in [keys -> Answers] :
             LET base_statuses == GatewayCheckBatch(base_symbols, answer,
                                      [objects |-> <<>>, dict |-> <<>>])
                 mapped == MapResults(svc.stocks, svc.normalized_map,
                               base_statuses.dict,
                               [objects |-> base_statuses.objects, dict |-> <<>>])
             IN  svc' = [svc EXCEPT
                    !.pc = "done",
                    !.provider_calls = Append(@, [method |-> "check_batch",
                                                  arg |-> base_symbols]),
                    !.answer = answer,
                    !.objects = mapped.objects,
                    !.results = mapped.dict,
                    !.out = "returned",
                    !.kept = IF svc.op = "filter_compliant_stocks"
                                THEN FilterStocks(svc.stocks, mapped.objects,
                                         mapped.dict, svc.conservative)
                                ELSE <<>>,
                    !.summary = IF svc.op = "get_compliance_summary"
                                   THEN Summary(mapped.objects, mapped.dict)
                                   ELSE NoSummary]
    /\ UNCHANGED <<now, ticks, calls, buckets, heap, hist, th,
                   store, written, cres, norm, gw, gcache, zoya>>

\* check_stock_compliance, lines 95-99: the stock is normalized; the call
\* has reached gateway.check_compliance.
CheckStockCall(stock) ==
    /\ svc.pc = "idle"
    /\ svc' = [ServiceIdle EXCEPT
                  !.pc = "check_compliance", !.op = "check_stock_compliance",
                  !.stocks = <<stock>>,
                  !.normalized = NormalizeForCompliance(stock.ticker, stock.exchange,
                                                        "universe")]
    /\ UNCHANGED <<now, ticks, calls, buckets, heap, hist, th,
                   store, written, cres, norm, gw, gcache, zoya>>

\* compliance_service.py:116  the symbol handed to gateway.check_compliance
CheckStockSymbolTicker(stock, normalized) == stock.ticker
CheckStockSymbol(stock, normalized) == normalized.base_symbol

\* check_stock_compliance, lines 116-127: gateway.check_compliance answers
\* with a status, which gets the normalization attached and is returned, or
\* raises, which the method does not catch.
CheckStockProvider ==
    /\ svc.pc = "check_compliance"
    /\ LET symbol == CheckStockSymbol(svc.stocks[1], svc.normalized)
           called == Append(svc.provider_calls,
                         [method |-> "check_compliance", arg |-> <<symbol>>])
       IN  \/ \E is_compliant \in {"True", "False", "None"} :
                svc' = [svc EXCEPT
                   !.pc = "done", !.provider_calls = called,
                   !.objects = <<[ComplianceStatus(symbol, is_compliant,
                                     IF is_compliant = "None"
                                        THEN <<"No compliance data">> ELSE <<>>,
                                     "gateway")
                                  EXCEPT !.normalized_from = svc.normalized]>>,
                   !.out = "returned"]
           \/ svc' = [svc EXCEPT !.pc = "done", !.provider_calls = called,
                                 !.out = "ComplianceException"]
    /\ UNCHANGED <<now, ticks, calls, buckets, heap, hist, th,
                   store, written, cres, norm, gw, gcache, zoya>>

\* The caller takes the result.
ServiceReturn ==
    /\ svc.pc = "done"
    /\ svc' = ServiceIdle
    /\ UNCHANGED <<now, ticks, calls, buckets, heap, hist, th,
                   store, written, cres, norm, gw, gcache, zoya>>

\* The methods that take a list of stocks and nothing else.
BatchOps == {"check_batch_compliance", "get_compliance_summary"}

\* One caller of the service over a gateway that answers as it likes.
NextService ==
    \/ \E op \in BatchOps, stocks \in StockLists : ServiceCall(op, stocks, TRUE)
    \/ \E stocks \in StockLists, conservative \in BOOLEAN :
          ServiceCall("filter_compliant_stocks", stocks, conservative)
    \/ ServiceCheckBatch
    \/ \E stock \in Stocks : CheckStockCall(stock)
    \/ CheckStockProvider
    \/ ServiceReturn

\* ------------------------------------------------- ZoyaComplianceGateway
\* zoya_gateway.py:142  rate_limiter.configure("zoya", requests_per_hour=36000)
ZoyaRequestsPerHour == 36000
\* zoya_gateway.py:179  @retry_on_failure(max_attempts=3, backoff_factor=2.0)
MaxAttempts == 3
BackoffFactor == 2
\* zoya_gateway.py:106  cache_ttl_days: int = 30
CacheTtlDays == 30

\* How many calls of the gateway a behaviour makes.
MaxGatewayCalls == 1
\* How many pages one get_all_reports fetches at most before the model
\* stops following it.
MaxFetches == 3

\* The tickers the gateway is given.
GatewayTickers == {<<"B", "M", "W">>, <<" ", "b", "m", "w">>, <<"S", "A", "P">>, <<>>}
GatewayKeys == {GatewayKey(t) : t \in GatewayTickers}
\* The lists check_batch is given: none, one symbol twice, two symbols, an
\* empty ticker among them.
TickerLists == {
    <<>>,
    << <<"B", "M", "W">>, <<" ", "b", "m", "w">> >>,
    << <<"B", "M", "W">>, <<"S", "A", "P">> >>,
    << <<>>, <<"S", "A", "P">> >> }

\* What a request to the Zoya API comes to: a report with a status, no
\* report for the symbol, a requests.exceptions.RequestException
\* (network_error), a ComplianceException of _execute_graphql (api_error:
\* HTTP status other than 200, GraphQL errors), or a report the parsing
\* fails on with some other exception (bad_report).
Reports == {"compliant", "not_compliant", "questionable", "not_found"}
Failures == {"network_error", "api_error", "bad_report"}
Responses == Reports \cup Failures

\* backoff_factor ** attempt
RECURSIVE Power(_, _)
Power(b, n) == IF n = 0 THEN 1 ELSE b * Power(b, n - 1)

\* _parse_zoya_status, lines 526-544.
ParseZoyaStatus(status_str) ==
    IF status_str = "compliant" THEN "True"
    ELSE IF status_str = "not_compliant" THEN "False"
    ELSE "None"

\* _check_compliance_with_retry, lines 223-252: the status built from the
\* API's answer.
StatusOfReport(ticker, report) ==
    IF report = "not_found"
       THEN ComplianceStatus(ticker, "None", <<"Not found in Zoya database">>, "zoya")
       ELSE ComplianceStatus(ticker, ParseZoyaStatus(report),
                IF ParseZoyaStatus(report) = "False"
                   THEN <<"Non-compliant per Zoya screening">> ELSE <<>>,
                "zoya")

\* The unknown status the gateway makes of a failure (lines 172-177,
\* 272-277, 310-315).
UnknownStatus(ticker, reason) == ComplianceStatus(ticker, "None", <<reason>>, "zoya")

\* next_token is None, or the token the provider sent with a page (the number
\* of the page it stands for).
NoToken == 0
\* max_items is None: "if max_items" takes None and 0 alike.
NoLimit == 0

\* The gateway between calls.  log, delays and cause are history: the steps
\* of the current check_compliance, the sleeps of its retries, and what each
\* result came from.  acquired and requests are history too: the tokens the
\* gateway has taken from the limiter and the requests it has sent since it
\* was constructed.  asset_type, max_items, next_token, all_items and
\* page_count are the arguments and locals of get_all_reports, pages the
\* report set the provider holds during the call.
NoStatus == ComplianceStatus(<<>>, "None", <<>>, "")
GatewayIdle ==
    [pc |-> "idle", op |-> "none", tickers |-> <<>>, queue |-> <<>>,
     ticker |-> <<>>, attempt |-> 0, report |-> "none", results |-> <<>>,
     out |-> "none", value |-> NoStatus, cause |-> "none",
     log |-> <<>>, delays |-> <<>>,
     asset_type |-> "", max_items |-> NoLimit, pages |-> <<>>,
     next_token |-> NoToken, all_items |-> <<>>, page_count |-> 0,
     acquired |-> 0, requests |-> 0]

\* The gateway as a new call finds it.
Fresh(g) == [GatewayIdle EXCEPT !.acquired = g.acquired, !.requests = g.requests]

\* ZoyaComplianceGateway.__init__, lines 121-142, with a cache manager and a
\* rate limiter: the limiter gets its "zoya" bucket, the cache is empty.
GatewayInit ==
    /\ gw = GatewayIdle
    /\ gcache = [k \in GatewayKeys |-> NoEntry]
    /\ zoya = ConfigureBucket(ZoyaRequestsPerHour, 0)

\* check_batch, line 307: the exceptions of check_compliance the loop
\* catches (except Exception).
BatchCatchesNetworkErrors(exception) == exception = "RequestException"
BatchCatches(exception) == TRUE

\* A check_compliance ends with a status, or with an exception ("none": no
\* exception): a single check returns or raises; inside check_batch the
\* status, or the unknown status made of the exception (lines 304-315), is
\* filed under the ticker and the loop goes on.
Finish(g, status, exception, cause) ==
    IF g.op = "check_compliance"
    THEN [g EXCEPT !.pc = "done", !.cause = cause,
                   !.out = IF exception = "none" THEN "returned" ELSE exception,
                   !.value = IF exception = "none" THEN status ELSE NoStatus]
    ELSE IF exception # "none" /\ ~BatchCatches(exception)
    THEN [g EXCEPT !.pc = "done", !.out = exception, !.cause = cause]
    ELSE [g EXCEPT !.pc = "batch_next", !.queue = Tail(@), !.cause = cause,
                   !.results = DictSet(@, g.ticker,
                       [status |-> IF exception = "none" THEN status
                                   ELSE UnknownStatus(g.ticker, "API error"),
                        cause |-> cause])]

\* One check_compliance begins (lines 161-168): an empty ticker raises
\* ValueError, any other goes to the first attempt.
Begin(g, ticker) ==
    LET s == [g EXCEPT !.ticker = GatewayKey(ticker), !.attempt = 0,
                       !.report = "none", !.log = <<>>, !.delays = <<>>]
    IN  IF GatewayKey(ticker) = <<>>
           THEN Finish(s, NoStatus, "ValueError", "ValueError")
           ELSE [s EXCEPT !.pc = "cache_get"]

GatewayCall == calls < MaxGatewayCalls /\ calls' = calls + 1

\* check_compliance(ticker) is called.
GatewayCheckCompliance(ticker) ==
    /\ gw.pc = "idle"
    /\ GatewayCall
    /\ gw' = Begin([Fresh(gw) EXCEPT !.op = "check_compliance",
                                      !.tickers = <<ticker>>], ticker)
    /\ UNCHANGED <<now, ticks, buckets, heap, hist, th, store, written, cres,
                   norm, svc, gcache, zoya>>

\* check_batch(tickers) is called (lines 294-298): an empty list returns an
\* empty dict, any other goes to the loop.
GatewayBatchCall(tickers) ==
    /\ gw.pc = "idle"
    /\ GatewayCall
    /\ gw' = IF tickers = <<>>
                THEN [Fresh(gw) EXCEPT !.pc = "done", !.op = "check_batch",
                                       !.out = "returned"]
                ELSE [Fresh(gw) EXCEPT
                         !.pc = "batch_next", !.op = "check_batch",
                         !.tickers = tickers,
                         !.queue = [i \in 1..Len(tickers) |-> GatewayKey(tickers[i])]]
    /\ UNCHANGED <<now, ticks, buckets, heap, hist, th, store, written, cres,
                   norm, svc, gcache, zoya>>

\* check_batch, lines 303-318: the loop takes the next ticker and calls
\* check_compliance for it, or returns the results after the last.
GatewayBatchNext ==
    /\ gw.pc = "batch_next"
    /\ gw' = IF gw.queue = <<>>
                THEN [gw EXCEPT !.pc = "done", !.out = "returned"]
                ELSE Begin(gw, Head(gw.queue))
    /\ UNCHANGED <<now, ticks, calls, buckets, heap, hist, th, store, written,
                   cres, norm, svc, gcache, zoya>>

\* _check_compliance_with_retry, line 188: what counts as a cache hit.
CacheHit(cached_status) == cached_status # Absent

\* _check_compliance_with_retry, lines 192-194: what follows a cache miss,
\* the limiter and then the request.
AfterCacheMissRequests == "request"
AfterCacheMiss == "acquire"

\* _check_compliance_with_retry, lines 184-190: the cache is asked; a hit is
\* returned.  The store may fail, which CacheManager.get turns into None.
GatewayCacheGet(fail) ==
    /\ gw.pc = "cache_get"
    /\ LET cached_status == GetOutcome(gcache, gw.ticker, now, fail).value
       IN  gw' = IF CacheHit(cached_status)
                    THEN Finish([gw EXCEPT !.log = Append(@, "cache_hit")],
                                StatusOfReport(gw.ticker, cached_status), "none",
                                "cache_hit")
                    ELSE [gw EXCEPT !.log = Append(@, "cache_miss"),
                                    !.pc = AfterCacheMiss]
    /\ UNCHANGED <<now, ticks, calls, buckets, heap, hist, th, store, written,
                   cres, norm, svc, gcache, zoya>>

\* _check_compliance_with_retry, lines 193-194: rate_limiter.acquire("zoya")
\* without a timeout takes a token, or sleeps and tries again.
GatewayAcquire ==
    /\ gw.pc = "acquire"
    /\ LET c == Consume(zoya, now)
       IN  /\ zoya' = c.bucket
           /\ IF c.ok
                 THEN /\ gw' = [gw EXCEPT !.log = Append(@, "acquire"),
                                          !.acquired = @ + 1,
                                          !.pc = "request"]
                      /\ now' = now
                 ELSE /\ gw' = gw
                      /\ now' = now + WaitTime(c.bucket)
    /\ UNCHANGED <<ticks, calls, buckets, heap, hist, th, store, written, cres,
                   norm, svc, gcache>>

\* retry_on_failure, lines 42-59: after a failed attempt, whether another
\* one is made.
RetriesAfterLastAttempt(attempt) == attempt <= MaxAttempts
Retries(attempt) == attempt < MaxAttempts

\* _check_compliance_with_retry, lines 254-261: which answers of the API
\* reach the cache.
CachedAlways(response) == TRUE
Cached(response) == response \in Reports

\* _check_compliance_with_retry, lines 196-277, inside retry_on_failure,
\* lines 42-59, and check_compliance, lines 167-177: the request is sent.
\* A report (or none) goes on to the cache; a network error is retried
\* after a sleep of backoff_factor ** attempt, and after the last attempt
\* makes an unknown status; a ComplianceException is raised; any other
\* exception makes an unknown status.
GatewayRequest(response) ==
    /\ gw.pc = "request"
    /\ LET g == [gw EXCEPT !.log = Append(@, "request"), !.requests = @ + 1]
           attempt == gw.attempt + 1
           delay == Power(BackoffFactor, attempt)
       IN  IF Cached(response)
           THEN gw' = [g EXCEPT !.pc = "cache_set", !.report = response] /\ now' = now
           ELSE IF response = "network_error"
           THEN IF Retries(attempt)
                THEN /\ gw' = [g EXCEPT !.pc = "cache_get", !.attempt = attempt,
                                        !.delays = Append(@, delay)]
                     /\ now' = now + delay
                ELSE /\ gw' = Finish([g EXCEPT !.attempt = attempt],
                                  UnknownStatus(gw.ticker, "Network error after retries"),
                                  "none", response)
                     /\ now' = now
           ELSE IF response = "api_error"
           THEN gw' = Finish(g, NoStatus, "ComplianceException", response) /\ now' = now
           ELSE gw' = Finish(g, UnknownStatus(gw.ticker, "API error"), "none", response)
                /\ now' = now
    /\ UNCHANGED <<ticks, calls, buckets, heap, hist, th, store, written, cres,
                   norm, svc, gcache, zoya>>

\* _check_compliance_with_retry, lines 254-261: the status is written to
\* the cache with a ttl of cache_ttl_days and returned.  The store may fail,
\* which CacheManager.set swallows.
GatewayCacheSet(fail) ==
    /\ gw.pc = "cache_set"
    /\ gcache' = IF fail THEN gcache
                 ELSE DiskSet(gcache, gw.ticker, gw.report,
                              SetExpire(TimeDelta(CacheTtlDays, 0)), now)
    /\ gw' = Finish([gw EXCEPT !.log = Append(@, "cache_set")],
                    StatusOfReport(gw.ticker, gw.report), "none", gw.report)
    /\ UNCHANGED <<now, ticks, calls, buckets, heap, hist, th, store, written,
                   cres, norm, svc, zoya>>

\* ---------------------------------------------------------- get_all_reports
\* The arguments get_all_reports is given, and the report sets the provider
\* holds: pages of items, an item being its number in the set.
AssetTypes == {"stock", "fund", "bond"}
Limits == {NoLimit, 1, 3}
ReportSets == {
    <<>>,
    << <<1, 2>> >>,
    << <<1, 2>>, <<3>> >>,
    << <<1>>, <<2>>, <<3>> >> }

\* The provider's answer to a reports query: the page the token stands for,
\* the first page for a query without a token, and with it the token of the
\* page that follows, if one does.
ProviderPage(pages, token) ==
    LET k == IF token = NoToken THEN 1 ELSE token
    IN  IF pages = <<>> THEN [items |-> <<>>, nextToken |-> NoToken]
        ELSE [items |-> pages[k],
              nextToken |-> IF k < Len(pages) THEN k + 1 ELSE NoToken]

\* _fetch_reports_page, lines 455-506: the token the query carries.  The
\* stock query takes nextToken into its input; the fund query has no
\* arguments.
SentToken(asset_type, next_token) ==
    IF asset_type = "stock" THEN next_token ELSE NoToken

\* _fetch_reports_page, lines 449-451: where fetching a page starts when a
\* rate limiter is configured.
FetchStartsWithRequest == "page_request"
FetchStart == "page_acquire"

\* get_all_reports(asset_type, max_items) is called (lines 377-383): an
\* asset type other than stock and fund raises ValueError; otherwise the
\* loop starts with the first page.
GatewayReportsCall(asset_type, max_items, pages) ==
    /\ gw.pc = "idle"
    /\ GatewayCall
    /\ gw' = IF asset_type \notin {"stock", "fund"}
                THEN [Fresh(gw) EXCEPT !.pc = "done", !.op = "get_all_reports",
                                       !.asset_type = asset_type,
                                       !.out = "ValueError"]
                ELSE [Fresh(gw) EXCEPT !.pc = FetchStart, !.op = "get_all_reports",
                                       !.asset_type = asset_type,
                                       !.max_items = max_items, !.pages = pages]
    /\ UNCHANGED <<now, ticks, buckets, heap, hist, th, store, written, cres,
                   norm, svc, gcache, zoya>>

\* _fetch_reports_page, lines 449-451: rate_limiter.acquire("zoya") takes a
\* token, or sleeps and tries again.
GatewayPageAcquire ==
    /\ gw.pc = "page_acquire"
    /\ LET c == Consume(zoya, now)
       IN  /\ zoya' = c.bucket
           /\ IF c.ok
                 THEN /\ gw' = [gw EXCEPT !.acquired = @ + 1, !.pc = "page_request"]
                      /\ now' = now
                 ELSE /\ gw' = gw
                      /\ now' = now + WaitTime(c.bucket)
    /\ UNCHANGED <<ticks, calls, buckets, heap, hist, th, store, written, cres,
                   norm, svc, gcache>>

\* get_all_reports, lines 393-430, and _fetch_reports_page, lines 508-517:
\* the query is sent.  A failure of the request ends the call with a
\* ComplianceException.  Otherwise the page's items are added; the call
\* returns the first max_items items once it has that many, or all items
\* once a page comes without a token, or goes on with the token it got.
GatewayPageRequest(fail) ==
    /\ gw.pc = "page_request"
    /\ gw.page_count < MaxFetches
    /\ LET g == [gw EXCEPT !.page_count = @ + 1, !.requests = @ + 1]
           page_data == ProviderPage(gw.pages, SentToken(gw.asset_type, gw.next_token))
           all_items == gw.all_items \o page_data.items
       IN  gw' = IF fail
                 THEN [g EXCEPT !.pc = "done", !.out = "ComplianceException"]
                 ELSE IF gw.max_items # NoLimit /\ Len(all_items) >= gw.max_items
                 THEN [g EXCEPT !.pc = "done", !.out = "returned",
                                !.all_items = SubSeq(all_items, 1, gw.max_items)]
                 ELSE IF page_data.nextToken = NoToken
                 THEN [g EXCEPT !.pc = "done", !.out = "returned",
                                !.all_items = all_items]
                 ELSE [g EXCEPT !.pc = FetchStart, !.all_items = all_items,
                                !.next_token = page_data.nextToken]
    /\ UNCHANGED <<now, ticks, calls, buckets, heap, hist, th, store, written,
                   cres, norm, svc, gcache, zoya>>

\* The caller takes the result.
GatewayReturn ==
    /\ gw.pc = "done"
    /\ gw' = Fresh(gw)
    /\ UNCHANGED <<now, ticks, calls, buckets, heap, hist, th, store, written,
                   cres, norm, svc, gcache, zoya>>

\* One caller of the gateway; the API and the cache's store answer as they
\* like.
NextGateway ==
    \/ \E ticker \in GatewayTickers : GatewayCheckCompliance(ticker)
    \/ \E tickers \in TickerLists : GatewayBatchCall(tickers)
    \/ GatewayBatchNext
    \/ \E fail \in BOOLEAN : GatewayCacheGet(fail)
    \/ GatewayAcquire
    \/ \E response \in Responses : GatewayRequest(response)
    \/ \E fail \in BOOLEAN : GatewayCacheSet(fail)
    \/ \E asset_type \in AssetTypes, max_items \in Limits, pages \in ReportSets :
          GatewayReportsCall(asset_type, max_items, pages)
    \/ GatewayPageAcquire
    \/ \E fail \in BOOLEAN : GatewayPageRequest(fail)
    \/ GatewayReturn

\* -------------------------------------------------------- specifications

\* A fresh limiter and a fresh cache.
Init == RLInit /\ CacheInit /\ NormInit /\ ServiceInit /\ GatewayInit

AcquireSteps(t, names) ==
    \/ \E n \in names : AcquireCall(t, n, FALSE, 0)
    \/ \E n \in names, d \in Timeouts : AcquireCall(t, n, TRUE, d)
    \/ AcquireConsume(t)
    \/ AcquireTimeout(t)
    \/ AcquireWait(t)
    \/ AcquireWake(t)

TrySteps(t, names) ==
    \/ \E n \in names : TryAcquireCall(t, n)
    \/ TryAcquireConsume(t)

ConfigureSteps(t, names) ==
    \E n \in names, r \in Rates : Configure(t, n, r)

TokenSteps(t, names) ==
    \/ \E n \in names : GetAvailableTokensCall(t, n)
    \/ GetAvailableTokensRefill(t)

\* One caller making calls one after another, time passing in between.
NextSeq ==
    \/ Tick
    \/ \E t \in SeqThreads :
          \/ Return(t)
          \/ ConfigureSteps(t, ApiNames)
          \/ AcquireSteps(t, ApiNames)
          \/ TrySteps(t, ApiNames)
          \/ TokenSteps(t, ApiNames)

SpecSeq == Init /\ [][NextSeq]_vars

\* Several threads calling configure, acquire and try_acquire on one name.
NextConc ==
    \/ Tick
    \/ \E t \in Threads :
          \/ Return(t)
          \/ ConfigureSteps(t, ConcNames)
          \/ AcquireSteps(t, ConcNames)
          \/ TrySteps(t, ConcNames)

SpecConc == Init /\ [][NextConc]_vars

UnlockedTokenSteps(t, names) ==
    \/ \E n \in names : GetAvailableTokensCall(t, n)
    \/ RefillReadClock(t)
    \/ RefillReadLast(t)
    \/ RefillReadTokens(t)
    \/ RefillWriteTokens(t)
    \/ RefillWriteLast(t)
    \/ GetAvailableTokensReturn(t)

\* acquire without a timeout.
WaitingAcquireSteps(t, names) ==
    \/ \E n \in names : AcquireCall(t, n, FALSE, 0)
    \/ AcquireConsume(t)
    \/ AcquireWait(t)
    \/ AcquireWake(t)

\* Several threads calling configure, acquire, try_acquire and
\* get_available_tokens on one name.
NextRace ==
    \/ Tick
    \/ \E t \in Threads :
          \/ Return(t)
          \/ ConfigureSteps(t, ConcNames)
          \/ WaitingAcquireSteps(t, ConcNames)
          \/ TrySteps(t, ConcNames)
          \/ UnlockedTokenSteps(t, ConcNames)

SpecRace == Init /\ [][NextRace]_vars

\* Several threads that call acquire without a timeout on one name, as often
\* as they like, the name being configured now and then.
NextFair ==
    \/ FairTick
    \/ \E t \in Threads :
          \/ Return(t)
          \/ ConfigureSteps(t, ConcNames)
          \/ \E n \in ConcNames : FairAcquireCall(t, n)
          \/ FairAcquireConsume(t)
          \/ AcquireWait(t)
          \/ AcquireWake(t)

\* Fair scheduling: time passes, and a thread inside acquire that can take
\* its next step again and again does take it.
FairScheduling ==
    /\ WF_vars(FairTick)
    /\ \A t \in Threads :
          /\ SF_vars(FairAcquireConsume(t))
          /\ SF_vars(AcquireWait(t))
          /\ SF_vars(AcquireWake(t))

SpecFair == Init /\ [][NextFair]_vars /\ FairScheduling

\* One caller of the cache, time passing between its calls; any call may
\* meet a storage failure.
NextCache ==
    \/ CacheTick
    \/ \E k \in Keys, fail \in BOOLEAN : CacheGet(k, fail)
    \/ \E k \in Keys, v \in Values, ttl \in TTLs, fail \in BOOLEAN :
          CacheSet(k, v, ttl, fail)
    \/ \E p \in Patterns, fail \in BOOLEAN : CacheInvalidate(p, fail)
    \/ \E fail \in BOOLEAN : CacheClear(fail)
    \/ \E fail \in BOOLEAN : CacheGetStats(fail)

SpecCache == Init /\ [][NextCache]_vars

\* normalize_for_compliance applied to one ticker and hint after another.
NextNorm ==
    \/ \E ticker \in NormTickers, exchange \in Hints : Normalize(ticker, exchange)
    \/ NormalizeReturn

SpecNorm == Init /\ [][NextNorm]_vars

SpecService == Init /\ [][NextService]_vars

SpecGateway == Init /\ [][NextGateway]_vars

Spec == SpecSeq

\* ---------------------------------------------------------------- claims

Objects == 1..Len(heap)
Full(b) == heap[b].capacity * OneToken
InAcquireLoop(t) == th[t].pc \in {"acq_timeout", "acq_wait", "acq_sleep"}
Returned(t, op) == th[t].pc = "done" /\ th[t].last.op = op
Granted(out) == out \in {"ok", "True"}

\* C1: at every observation point of a sequence of configure, acquire,
\* try_acquire and get_available_tokens calls, with time passing in between,
\* every bucket holds 0 <= tokens <= capacity, and get_available_tokens
\* answers a number in 0..capacity.
C1_TokensWithinCapacity ==
    /\ \A b \in Objects : 0 <= heap[b].tokens /\ heap[b].tokens <= Full(b)
    /\ \A t \in Threads :
          (Returned(t, "get_available_tokens") /\ th[t].last.known)
             => /\ 0 <= th[t].last.value
                /\ th[t].last.value <= heap[th[t].bucket].capacity

\* C1's case: a bucket that has granted a token, has been refilled some time
\* later and is observed by get_available_tokens.
C1_Witness ==
    \E t \in Threads :
       /\ Returned(t, "get_available_tokens") /\ th[t].last.known
       /\ hist[th[t].bucket].granted >= 1
       /\ heap[th[t].bucket].last_refill_time > hist[th[t].bucket].created

\* The tokens bucket object b of heap h would hold after a refill at time t.
Avail(h, b, t) ==
    Min(h[b].capacity * OneToken,
        h[b].tokens + (t - h[b].last_refill_time) * h[b].refill_rate)

\* A step in which thread t returns from acquire or try_acquire with a token.
TakesToken(t) ==
    /\ th[t].pc \in {"acq_consume", "try_consume"}
    /\ th'[t].pc = "done"
    /\ Granted(th'[t].last.out)

\* C2: concurrent acquire and try_acquire calls on one name are
\* linearizable.  In every step, for every bucket: at most one token is
\* granted; a token is granted exactly when one caller returns with success,
\* and that caller's bucket then holds exactly one token less; and what the
\* bucket holds plus what it has granted grows by no more than the refill
\* for the time that has passed, so over any interval the grants never exceed
\* the tokens present at its start plus the tokens refilled during it.
C2_Linearizable ==
    [][ /\ \A b \in Objects :
             LET g == hist'[b].granted - hist[b].granted
             IN /\ g \in {0, 1}
                /\ Avail(heap', b, now') + g * OneToken
                      <= Avail(heap, b, now) + (now' - now) * heap[b].refill_rate
                /\ g = 1 <=> \E t \in Threads : TakesToken(t) /\ th[t].bucket = b
        /\ \A t \in Threads :
             TakesToken(t) =>
                Avail(heap', th[t].bucket, now) = Avail(heap, th[t].bucket, now) - OneToken
      ]_vars

\* C2's case: two threads in acquire on the same bucket, one returning with
\* the bucket's last token while the other sleeps for the next.
C2_Witness ==
    /\ Returned("t1", "acquire") /\ th["t1"].last.out = "ok"
    /\ th["t2"].pc = "acq_sleep"
    /\ th["t1"].bucket = th["t2"].bucket
    /\ hist[th["t1"].bucket].granted = heap[th["t1"].bucket].capacity

\* C3: after configure(name, N) the first N acquisitions never wait (a
\* caller is in acquire's wait loop only when its bucket has granted N
\* tokens), and a bucket has granted N + k tokens only once k whole tokens
\* have been refilled since it was configured: the (N+1)th acquire returns
\* no earlier than 3600 / N seconds after configure.
C3_BurstThenBlock ==
    /\ \A t \in Threads :
          InAcquireLoop(t) => hist[th[t].bucket].granted >= heap[th[t].bucket].capacity
    /\ \A b \in Objects :
          hist[b].granted > heap[b].capacity
             => (now - hist[b].created) * heap[b].capacity
                   >= (hist[b].granted - heap[b].capacity) * SecondsPerHour

\* C3's case: the (N+1)th acquire has returned.
C3_Witness ==
    \E t \in Threads :
       /\ Returned(t, "acquire") /\ th[t].last.out = "ok"
       /\ hist[th[t].bucket].granted = heap[th[t].bucket].capacity + 1

\* C4: acquire(name, timeout) raises the timeout error only when the timeout
\* has elapsed and its last consume found no token; it never goes on waiting
\* once its deadline test has seen the timeout elapsed; and no sleep is
\* longer than one second, so the deadline is tested again within a second.
C4_TimeoutBounds ==
    \A t \in Threads :
       /\ (Returned(t, "acquire") /\ th[t].last.out = "RateLimitException")
             => /\ th[t].has_timeout
                /\ ~th[t].last.early
                /\ ~th[t].last.had_token
       /\ (th[t].pc \in {"acq_wait", "acq_sleep"} /\ th[t].has_timeout)
             => ~th[t].overdue
       /\ th[t].pc = "acq_sleep" => th[t].wake <= now + MaxSleep

\* C4's case: an acquire with a timeout that is not zero has waited, found no
\* token and raised.
C4_Witness ==
    \E t \in Threads :
       /\ Returned(t, "acquire") /\ th[t].last.out = "RateLimitException"
       /\ th[t].timeout > 0

\* C5: once configure(name, n) has returned the name's bucket has capacity n
\* and n tokens, the buckets of other names are unchanged, and every token
\* granted to a call for name is taken from the bucket registered for name,
\* also by a call that was under way when configure ran.
C5_ReconfigureResets ==
    [][ \A t \in Threads :
          /\ (th[t].pc = "idle" /\ th'[t].pc = "done" /\ th'[t].last.op = "configure")
                => /\ heap'[buckets'[th'[t].api]].tokens
                        = heap'[buckets'[th'[t].api]].capacity * OneToken
                   /\ \A n \in ApiNames \ {th'[t].api} :
                         /\ buckets'[n] = buckets[n]
                         /\ buckets[n] # 0 => heap'[buckets[n]] = heap[buckets[n]]
          /\ TakesToken(t) => th[t].bucket = buckets[th[t].api]
      ]_vars

\* C6: acquire, try_acquire and get_available_tokens called with a name that
\* has no bucket fail with the configuration error (ValueError) and leave the
\* buckets as they were.
C6_UnconfiguredFails ==
    [][ \A t \in Threads :
          ( /\ th[t].pc = "idle" /\ th'[t].pc = "done"
            /\ th'[t].last.op \in {"acquire", "try_acquire", "get_available_tokens"}
            /\ ~th'[t].last.known )
             => /\ th'[t].last.out = "ValueError"
                /\ buckets' = buckets
                /\ heap' = heap
      ]_vars

\* A step in which thread t runs TokenBucket._refill on its bucket.
Refills(t) ==
    /\ th[t].pc \in {"acq_consume", "try_consume", "gat_refill"}
    /\ th'[t] # th[t]

\* C7: a refill computed when the bucket has seen no consumption for
\* capacity / refill_rate seconds leaves the bucket full, whatever it held
\* (a consume that follows in the same call then takes one token from the
\* full bucket).
C7_FullAfterIdle ==
    [][ \A t \in Threads :
          LET b == th[t].bucket
          IN (Refills(t)
              /\ (now - hist[b].last_consume) * heap[b].refill_rate >= Full(b))
                => heap'[b].tokens
                      + (hist'[b].granted - hist[b].granted) * OneToken = Full(b)
      ]_vars

\* C7's case: a bucket that granted a token, then went without consumption
\* for capacity / refill_rate seconds, refilled in between, and is observed.
C7_Witness ==
    \E t \in Threads :
       /\ Returned(t, "get_available_tokens") /\ th[t].last.known
       /\ hist[th[t].bucket].granted >= 1
       /\ (now - hist[th[t].bucket].last_consume) * heap[th[t].bucket].refill_rate
             >= Full(th[t].bucket)
       /\ heap[th[t].bucket].last_refill_time = now
       /\ th[t].last.value = heap[th[t].bucket].capacity


\* The last set(key, ...) that reached the store, and when its entry expires.
LastSet(k) == written[k]
Expiry(k) == written[k].time + TotalSeconds(written[k].ttl)

\* C8 as stated: get(key) returns the value of the most recent set(key,
\* value, ttl) exactly while now < set-time + ttl, and absent from then on
\* (and absent for a key never set).
C8_GetExactlyWhileFresh ==
    cres.op = "get" =>
       IF LastSet(cres.key).called /\ cres.at < Expiry(cres.key)
       THEN cres.value = LastSet(cres.key).value
       ELSE cres.value = Absent

\* C8 as amended: whenever get(key) returns a value, it is the value of the
\* most recent set(key, value, ttl) that reached the store and now <
\* set-time + ttl, so an expired value is never returned again unless the key
\* is set again and set(k, v, ttl=0) followed by get(k) returns absent; and
\* get returns that value whenever the entry is still stored (not evicted,
\* invalidated or cleared), now < set-time + ttl and the get meets no storage
\* failure.
C8_GetWhileStoredAndFresh ==
    cres.op = "get" =>
       /\ cres.value # Absent
             => /\ LastSet(cres.key).called
                /\ cres.value = LastSet(cres.key).value
                /\ cres.at < Expiry(cres.key)
       /\ (store[cres.key].present /\ cres.at < Expiry(cres.key) /\ ~cres.failed)
             => cres.value = LastSet(cres.key).value

\* C8's case: a get of an entry that was set with a ttl of a day, is still
\* stored and has expired.
C8_Witness ==
    /\ cres.op = "get" /\ ~cres.failed
    /\ store[cres.key].present
    /\ LastSet(cres.key).ttl.days = 1
    /\ cres.at >= Expiry(cres.key)
    /\ cres.value = Absent

\* C9: a storage failure during a cache call never reaches the caller: every
\* call returns normally, a failed get returns absent, and a failed set
\* leaves the stored entries as they were.
C9_FailureDegrades ==
    [][ calls' = calls + 1 =>
          /\ cres'.out = "returned"
          /\ (cres'.failed /\ cres'.op = "get") => cres'.value = Absent
          /\ (cres'.failed /\ cres'.op = "set") => store' = store
      ]_vars

\* C9's case: a get meets a storage failure while the entry it asks for is
\* stored and fresh.
C9_Witness ==
    /\ cres.op = "get" /\ cres.failed
    /\ store[cres.key].present
    /\ cres.at < Expiry(cres.key)

\* ------------------------------------------------ claims on the services

\* The service has returned from a call of the method op.
ServiceReturned(op) == svc.pc = "done" /\ svc.op = op /\ svc.out = "returned"
\* The lists the service has handed to gateway.check_batch in this call.
BatchCalls == SelectSeq(svc.provider_calls, LAMBDA c : c.method = "check_batch")
\* No element occurs twice in the list.
NoRepeats(list) == \A i, j \in 1..Len(list) : list[i] = list[j] => i = j
\* The base symbol normalize gives a stock.
BaseOf(stock) == NormalizeForCompliance(stock.ticker, stock.exchange, "").base_symbol

\* C11: a call of check_batch_compliance on a non-empty list hands the
\* gateway exactly one check_batch call, whose symbol list holds each base
\* symbol at most once, also when several tickers have the same base symbol.
C11_OneBatchCallWithoutRepeats ==
    (ServiceReturned("check_batch_compliance") /\ svc.stocks # <<>>) =>
        /\ Len(svc.provider_calls) = 1
        /\ Len(BatchCalls) = 1
        /\ NoRepeats(BatchCalls[1].arg)

\* C12: check_batch_compliance returns a status for exactly the input
\* tickers; a ticker's status has the compliance value the gateway returned
\* for the ticker's base symbol, and a ticker whose base symbol the gateway
\* left out has an unknown status with a reason.
C12_StatusForEveryTicker ==
    ServiceReturned("check_batch_compliance") =>
        /\ SeqToSet(DictKeys(svc.results)) = {s.ticker : s \in SeqToSet(svc.stocks)}
        /\ \A s \in SeqToSet(svc.stocks) :
              LET status == svc.objects[DictGet(svc.results, s.ticker)]
                  base == BaseOf(s)
              IN  IF base \in DOMAIN svc.answer /\ svc.answer[base] # "absent"
                     THEN status.is_compliant = svc.answer[base]
                     ELSE status.is_compliant = "None" /\ status.reasons # <<>>

\* C12 witness: a batch of two tickers with one base symbol and a third
\* ticker whose base symbol the gateway left out; the first two have the
\* gateway's value, the third is unknown.
C12_Witness ==
    /\ ServiceReturned("check_batch_compliance")
    /\ \E s1, s2, s3 \in SeqToSet(svc.stocks) :
          /\ s1.ticker # s2.ticker /\ BaseOf(s1) = BaseOf(s2)
          /\ svc.answer[BaseOf(s1)] = "True"
          /\ ValueOf(svc.objects, svc.results, s2.ticker) = "True"
          /\ svc.answer[BaseOf(s3)] = "absent"
          /\ ValueOf(svc.objects, svc.results, s3.ticker) = "None"

\* The compliance values a mode of the filter lets through.
Admitted(conservative) == IF conservative THEN {"True"} ELSE {"True", "None"}

\* C13: filter_compliant_stocks returns, in input order, exactly the input
\* stocks whose status is true (conservative) or true or unknown (not
\* conservative): never one whose status is false, and in conservative mode
\* never one whose status is unknown.
C13_FilterKeepsAdmitted ==
    ServiceReturned("filter_compliant_stocks") =>
        /\ svc.kept = SelectSeq(svc.stocks, LAMBDA s :
               ValueOf(svc.objects, svc.results, s.ticker) \in Admitted(svc.conservative))
        /\ \A i \in 1..Len(svc.kept) :
              LET v == ValueOf(svc.objects, svc.results, svc.kept[i].ticker)
              IN  v # "False" /\ (svc.conservative => v # "None")

\* C13 witness: a conservative filter over stocks of all three states that
\* keeps the compliant one and nothing else.
C13_Witness ==
    /\ ServiceReturned("filter_compliant_stocks")
    /\ svc.conservative
    /\ {ValueOf(svc.objects, svc.results, s.ticker) : s \in SeqToSet(svc.stocks)}
          = {"True", "False", "None"}
    /\ Len(svc.kept) = 1

\* C16: in check_stock_compliance the gateway is called only once the stock
\* is normalized; a call that returns has called the gateway exactly once,
\* with the normalized base symbol, and the status it returns carries the
\* stock's NormalizedSymbol.
C16_NormalizeThenProviderOnce ==
    svc.op = "check_stock_compliance" =>
        LET normalized == NormalizeForCompliance(svc.stocks[1].ticker,
                              svc.stocks[1].exchange, "universe")
        IN  /\ svc.provider_calls # <<>> => svc.normalized = normalized
            /\ svc.pc = "check_compliance" => svc.provider_calls = <<>>
            /\ ServiceReturned("check_stock_compliance") =>
                  /\ svc.provider_calls = <<[method |-> "check_compliance",
                                            arg |-> <<normalized.base_symbol>>]>>
                  /\ svc.objects[1].normalized_from = normalized
                  /\ normalized.original_ticker = Upper(Strip(svc.stocks[1].ticker))

\* C16 witness: a check of a ticker with an exchange suffix has returned.
C16_Witness ==
    /\ ServiceReturned("check_stock_compliance")
    /\ svc.provider_calls[1].arg[1] # svc.stocks[1].ticker
    /\ svc.objects[1].normalized_from.base_symbol = svc.provider_calls[1].arg[1]

\* C19: get_compliance_summary returns total equal to the number of stocks
\* in the input, and compliant + non_compliant + unknown = total, also when
\* a ticker repeats or tickers share a base symbol.
C19_SummaryCountsEveryStock ==
    ServiceReturned("get_compliance_summary") =>
        /\ svc.summary.total = Len(svc.stocks)
        /\ svc.summary.compliant + svc.summary.non_compliant + svc.summary.unknown
              = svc.summary.total

\* The ticker is empty or holds nothing but whitespace.
Blank(ticker) == \A i \in 1..Len(ticker) : ticker[i] \in Whitespace

\* C20 as claimed: normalize raises a validation error for an empty or
\* whitespace-only ticker and returns a NormalizedSymbol for every other
\* ticker.
C20_EmptyTickerRaises ==
    norm.called =>
        IF Blank(norm.ticker)
           THEN norm.out = "ValueError"
           ELSE norm.out = "returned"

\* C20 as the code has it: normalize returns a NormalizedSymbol for every
\* ticker, with or without an exchange hint; for an empty or whitespace-only
\* ticker the base symbol it returns is the empty string.
C20_AlwaysReturns ==
    norm.called =>
        /\ norm.out = "returned"
        /\ Blank(norm.ticker) => norm.result.base_symbol = <<>>

\* C20 witness: normalize has returned for a whitespace-only ticker.
C20_Witness ==
    /\ norm.called
    /\ norm.ticker = <<" ">>
    /\ norm.out = "returned"
    /\ norm.result.base_symbol = <<>>

\* -------------------------------------------------- claims on the gateway
\* How often event e stands in log.
CountOf(log, e) == Cardinality({i \in 1..Len(log) : log[i] = e})

\* check_batch has ended and the caller has not yet taken the result.
BatchEnded == gw.pc = "done" /\ gw.op = "check_batch"

\* C14: check_batch does not raise whatever the API does for a symbol: it
\* returns one result per symbol given; a symbol whose check failed (network
\* error after the retries, API error, any other exception) has an unknown
\* status with a reason, and every other symbol has the status of its own
\* report.
C14_BatchIsolatesFailures ==
    BatchEnded =>
        /\ gw.out = "returned"
        /\ SeqToSet(DictKeys(gw.results)) = {GatewayKey(t) : t \in SeqToSet(gw.tickers)}
        /\ \A k \in SeqToSet(DictKeys(gw.results)) :
              LET r == DictGet(gw.results, k)
              IN  /\ r.status.ticker = k
                  /\ r.cause \in Failures \cup {"ValueError"} =>
                        /\ r.status.is_compliant = "None"
                        /\ r.status.reasons # <<>>
                  /\ r.cause \in Reports => r.status = StatusOfReport(k, r.cause)
                  /\ r.cause = "cache_hit" =>
                        r.status = StatusOfReport(k, gcache[k].value)

\* C14 witness: a batch of two symbols has returned; the API failed for the
\* first and reported the second compliant.
C14_Witness ==
    /\ BatchEnded
    /\ gw.out = "returned"
    /\ DictKeys(gw.results) = << <<"B", "M", "W">>, <<"S", "A", "P">> >>
    /\ DictGet(gw.results, <<"B", "M", "W">>).cause = "api_error"
    /\ DictGet(gw.results, <<"B", "M", "W">>).status.is_compliant = "None"
    /\ DictGet(gw.results, <<"S", "A", "P">>).status.is_compliant = "True"

\* A single check_compliance has ended and the caller has not yet taken the
\* result.
CheckEnded == gw.pc = "done" /\ gw.op = "check_compliance"

\* C15: in a provider check every network request comes directly after a
\* token acquisition, which comes directly after a cache miss; a cache hit
\* ends the check with no acquisition and no request after the cache was
\* asked, and the status returned is the cached one.
C15_CacheThenLimiterThenNetwork ==
    /\ \A i \in 1..Len(gw.log) :
          /\ gw.log[i] = "request" =>
                i >= 3 /\ gw.log[i - 1] = "acquire" /\ gw.log[i - 2] = "cache_miss"
          /\ gw.log[i] = "acquire" => i >= 2 /\ gw.log[i - 1] = "cache_miss"
          /\ gw.log[i] = "cache_hit" =>
                i = Len(gw.log) /\ (i = 1 \/ gw.log[i - 1] = "request")
    /\ (gw.log # <<>> /\ gw.log[Len(gw.log)] = "cache_hit") =>
          /\ gw.cause = "cache_hit"
          /\ gw.op = "check_compliance" =>
                /\ gw.out = "returned"
                /\ gw.value = StatusOfReport(gw.ticker, gcache[gw.ticker].value)
          /\ gw.op = "check_batch" =>
                DictGet(gw.results, gw.ticker).status
                    = StatusOfReport(gw.ticker, gcache[gw.ticker].value)

\* C15 witness: the second check of a symbol inside a batch was answered by
\* the cache: the limiter has given the one token of the first check and no
\* other.
C15_Witness ==
    /\ gw.op = "check_batch"
    /\ gw.log = <<"cache_hit">>
    /\ gcache[gw.ticker].present
    /\ DictGet(gw.results, gw.ticker).cause = "cache_hit"
    /\ zoya = Consume(ConfigureBucket(ZoyaRequestsPerHour, 0), 0).bucket

\* C17: a provider check sends at most 3 requests; the sleeps between them
\* are 2 and 4 seconds (backoff_factor ** attempt); a report received on any
\* attempt is the status returned; after the third network error the check
\* returns an unknown status with a reason and raises nothing.
C17_ThreeAttemptsThenUnknown ==
    /\ CountOf(gw.log, "request") <= MaxAttempts
    /\ Len(gw.delays) < MaxAttempts
    /\ \A i \in 1..Len(gw.delays) : gw.delays[i] = Power(BackoffFactor, i)
    /\ CheckEnded =>
          /\ gw.cause \in Reports =>
                gw.out = "returned" /\ gw.value = StatusOfReport(gw.ticker, gw.cause)
          /\ gw.cause = "network_error" =>
                /\ CountOf(gw.log, "request") = MaxAttempts
                /\ gw.delays = <<BackoffFactor, BackoffFactor * BackoffFactor>>
                /\ gw.out = "returned"
                /\ gw.value.ticker = gw.ticker
                /\ gw.value.is_compliant = "None"
                /\ gw.value.reasons # <<>>

\* C17 witness: a check has returned an unknown status after three network
\* errors and sleeps of 2 and 4 seconds.
C17_Witness ==
    /\ CheckEnded
    /\ gw.cause = "network_error"
    /\ gw.log = <<"cache_miss", "acquire", "request",
                  "cache_miss", "acquire", "request",
                  "cache_miss", "acquire", "request">>
    /\ gw.delays = <<2, 4>>
    /\ gw.out = "returned"
    /\ gw.value.is_compliant = "None"
    /\ now = 6

\* C18: the cache changes only in the write that follows a cache miss, a
\* token and an answer of the API that is a report (or the absence of one);
\* the entry written is the checked symbol's, with the ttl of 30 days; a
\* check that ends with a failure leaves the cache as it was.
C18_CacheWrittenOnlyAfterSuccess ==
    [][/\ gcache' # gcache =>
             /\ gw.pc = "cache_set"
             /\ gw.report \in Reports
             /\ Len(gw.log) >= 3
             /\ gw.log[Len(gw.log)] = "request"
             /\ gw.log[Len(gw.log) - 2] = "cache_miss"
             /\ gcache' = [gcache EXCEPT ![gw.ticker] =
                              [present |-> TRUE, value |-> gw.report,
                               expire_time |-> now + CacheTtlDays * SecondsPerDay]]
       /\ gw'.cause \in Failures \cup {"ValueError"} /\ gw'.cause # gw.cause
             => gcache' = gcache]_vars

\* C18 witness: in a batch the first check of a symbol failed and left no
\* entry, so the second check of the same symbol missed the cache and sent a
\* request, whose report is now in the cache.
C18_Witness ==
    /\ gw.op = "check_batch"
    /\ gw.tickers = << <<"B", "M", "W">>, <<" ", "b", "m", "w">> >>
    /\ gw.pc = "done"
    /\ CountOf(gw.log, "request") = 1
    /\ gw.log[Len(gw.log)] = "cache_set"
    /\ gw.delays = <<>>
    /\ gcache[<<"B", "M", "W">>].present
    /\ now = 0
    /\ zoya = Consume(Consume(ConfigureBucket(ZoyaRequestsPerHour, 0), 0).bucket, 0).bucket

\* ------------------------------------------- claims on the normalization
\* The ticker as normalize reads it: trimmed, then uppercased.
Canonical(ticker) == Upper(Strip(ticker))

\* The ticker ends with a suffix of the PRESERVE set.
HasPreserveSuffix(t) == \E p \in PRESERVE_SUFFIXES : EndsWith(t, p)

\* The rows of the exchange table whose suffix the ticker ends with.
ExchangeRows(t) ==
    {i \in 1..Len(EXCHANGE_MAPPINGS) : EndsWith(t, EXCHANGE_MAPPINGS[i].yfinance_suffix)}

\* The ticker carries neither a preserve suffix nor an exchange suffix.
Bare(t) == ~HasPreserveSuffix(t) /\ ExchangeRows(t) = {}

\* C21: for a ticker that, trimmed and uppercased, ends with a suffix of the
\* PRESERVE set, normalize returns the whole trimmed, uppercased ticker as
\* base symbol with confidence HIGH, whatever exchange suffix the ticker
\* also carries and whatever the hint.
C21_PreserveSuffixKept ==
    (norm.called /\ HasPreserveSuffix(Canonical(norm.ticker))) =>
        /\ norm.out = "returned"
        /\ norm.result.base_symbol = Canonical(norm.ticker)
        /\ norm.result.confidence = "HIGH"

\* C21 witness: BRK.A given with a hint no table knows comes back whole and
\* with confidence HIGH.
C21_Witness ==
    /\ norm.called
    /\ norm.ticker = <<"B", "R", "K", ".", "A">>
    /\ norm.exchange = <<"Z", "Z", "Z">>
    /\ norm.result.base_symbol = <<"B", "R", "K", ".", "A">>
    /\ norm.result.confidence = "HIGH"

\* C22: for a ticker that ends with a suffix of the exchange table and
\* with no preserve suffix, normalize strips the longest suffix of the table
\* the ticker ends with and nothing else, and returns that row's exchange
\* code and region with confidence HIGH, whatever the hint.
C22_LongestExchangeSuffixStripped ==
    LET t == Canonical(norm.ticker)
        rows == ExchangeRows(t)
    IN  (norm.called /\ ~HasPreserveSuffix(t) /\ rows # {}) =>
            LET row == EXCHANGE_MAPPINGS[CHOOSE i \in rows : \A j \in rows :
                           Len(EXCHANGE_MAPPINGS[j].yfinance_suffix)
                               <= Len(EXCHANGE_MAPPINGS[i].yfinance_suffix)]
            IN  /\ norm.result.base_symbol \o row.yfinance_suffix = t
                /\ norm.result.exchange_code = row.bloomberg_code
                /\ norm.result.market_region = row.market_region
                /\ norm.result.confidence = "HIGH"

\* C22 witness: BMW.DE given with the hint of a US exchange comes back as
\* BMW on XETR.
C22_Witness ==
    /\ norm.called
    /\ norm.ticker = <<"B", "M", "W", ".", "D", "E">>
    /\ norm.exchange = <<"N", "M", "S">>
    /\ norm.result.base_symbol = <<"B", "M", "W">>
    /\ norm.result.exchange_code = <<"X", "E", "T", "R">>
    /\ norm.result.market_region = "EU"
    /\ norm.result.confidence = "HIGH"

\* The Bloomberg codes of the exchange table, and the US codes.
BloombergCodes ==
    {EXCHANGE_MAPPINGS[i].bloomberg_code : i \in 1..Len(EXCHANGE_MAPPINGS)}
UsCodes == {US_EXCHANGE_CODES[i].code : i \in 1..Len(US_EXCHANGE_CODES)}
\* The rows of the exchange table whose name holds the code.
NameRows(code) ==
    {i \in 1..Len(EXCHANGE_MAPPINGS) :
        Contains(Upper(EXCHANGE_MAPPINGS[i].exchange_name), code)}

C24_BareTickerUnchanged ==
    (norm.called /\ norm.exchange = None /\ Bare(Canonical(norm.ticker))) =>
        /\ norm.result.base_symbol = Canonical(norm.ticker)
        /\ norm.ticker = Canonical(norm.ticker) => norm.result.base_symbol = norm.ticker
        /\ norm.result.market_region = "US"
        /\ norm.result.confidence = "HIGH"

\* C24 witness: AAPL without a hint comes back as AAPL, US, HIGH.
C24_Witness ==
    /\ norm.called
    /\ norm.ticker = <<"A", "A", "P", "L">>
    /\ norm.exchange = None
    /\ norm.result.base_symbol = <<"A", "A", "P", "L">>
    /\ norm.result.market_region = "US"
    /\ norm.result.confidence = "HIGH"

\* C30: for a non-empty ticker given without a hint, normalizing the base
\* symbol normalize returned gives that base symbol again.
C30_NormalizeIdempotent ==
    (norm.called /\ norm.exchange = None /\ ~Blank(norm.ticker)) =>
        NormalizeForCompliance(norm.result.base_symbol, None, "yfinance").base_symbol
            = norm.result.base_symbol

\* C27: after check_batch_compliance, the normalization attached to the
\* status filed under an input ticker is the NormalizedSymbol of that
\* ticker: its original_ticker is the ticker (as normalize read it), also
\* when tickers share a base symbol and with it one status object.
C27_AuditOfOwnTicker ==
    ServiceReturned("check_batch_compliance") =>
        \A s \in SeqToSet(svc.stocks) :
            LET status == svc.objects[DictGet(svc.results, s.ticker)]
            IN  status.source # "error" =>
                   /\ status.normalized_from.original_ticker = Canonical(s.ticker)
                   /\ status.normalized_from = DictGet(svc.normalized_map, s.ticker)

\* The items of all pages, in page order.
RECURSIVE Flatten(_)
Flatten(pages) == IF pages = <<>> THEN <<>> ELSE Head(pages) \o Flatten(Tail(pages))

\* The first n elements of s, or all of s if it has fewer.
Take(s, n) == SubSeq(s, 1, IF n < Len(s) THEN n ELSE Len(s))

\* C25: get_all_reports, for stocks and funds alike, fetches no page twice
\* (it ends within as many fetches as the report set has pages), holds at
\* every moment the items of the pages fetched so far, once each and in page
\* order, and returns all items of the set, or the first max_items of them
\* if max_items is given and reached.
C25_PagesOnceInOrder ==
    (gw.op = "get_all_reports" /\ gw.asset_type \in {"stock", "fund"}) =>
        LET all == Flatten(gw.pages)
        IN  /\ gw.page_count <= IF gw.pages = <<>> THEN 1 ELSE Len(gw.pages)
            /\ gw.all_items = Take(all, Len(gw.all_items))
            /\ (gw.pc = "done" /\ gw.out = "returned") =>
                  gw.all_items = IF gw.max_items = NoLimit THEN all
                                 ELSE Take(all, gw.max_items)

\* C29: every request the gateway sends, for a check, a retry or a page of
\* get_all_reports, uses up a token of its own that the gateway took from
\* the limiter just before: the requests sent never outnumber the tokens
\* taken, and a token is in hand exactly while a request is about to be
\* sent.
C29_RequestsWithinTokens ==
    /\ gw.requests <= gw.acquired
    /\ gw.acquired = gw.requests + (IF gw.pc \in {"request", "page_request"} THEN 1 ELSE 0)

\* C29 witness: get_all_reports has returned three pages, for which the
\* gateway took three tokens, one before each request.
C29_Witness ==
    /\ gw.pc = "done"
    /\ gw.op = "get_all_reports"
    /\ gw.out = "returned"
    /\ gw.page_count = 3
    /\ gw.requests = 3
    /\ gw.acquired = 3
    /\ zoya.tokens = (ZoyaRequestsPerHour - 3) * OneToken

\* C26: get_available_tokens beside acquire and try_acquire undoes no
\* consumption.  In every step, for every bucket: the tokens stay within 0
\* and the capacity, and what the bucket holds (counting the refill due),
\* plus the token granted in the step, is no more than what it held before
\* plus the refill for the time the step took: no token taken by a thread
\* comes back, and no interval is credited twice.
C26_RefillNeverUndoesConsume ==
    [][\A b \in Objects :
          LET g == hist'[b].granted - hist[b].granted
          IN  /\ heap'[b].tokens >= 0
              /\ heap'[b].tokens <= Full(b)
              /\ Avail(heap', b, now') + g * OneToken
                    <= Avail(heap, b, now) + (now' - now) * heap[b].refill_rate
      ]_vars

\* C28: under fair scheduling every acquire call without a timeout returns
\* in the end, whatever the other threads do with the same bucket.
C28_AcquireEventuallyReturns ==
    \A t \in Threads : (th[t].pc = "acq_consume") ~> (th[t].pc = "done")

====
